---- MODULE Spec2Model ----
(***************************************************************************)
(* A model of the preservation orchestrator of curate-preservation-core:   *)
(*   - utils.Retry / utils.IsTransientError      (pkg/utils/archive.go)     *)
(*   - a3mclient.Client.SubmitPackage            (unnamed/part_017)         *)
(*   - Preserver.submitPackage, Preserver.Run    (internal/preservation)    *)
(*   - the /preserve HTTP handler                (internal/server.go)       *)
(* Each part has its own specification over the shared variables; the      *)
(* variables of the parts a specification does not exercise keep their     *)
(* initial values.                                                         *)
(***************************************************************************)
EXTENDS Integers, Sequences, FiniteSets, TLC

VARIABLES
    \* ---- utils.Retry called on a scripted operation
    rScript,        \* the outcome of the operation's 1st, 2nd, ... invocation
    rI,             \* Retry's loop index i
    rDelay,         \* Retry's delay, in seconds
    rErr,           \* Retry's local err
    rCalls,         \* how many times operation() was invoked
    rPc,            \* "loop" | "done"
    \* ---- pipelines inside Preserver.submitPackage / Client.SubmitPackage
    processingTokens, \* number of elements in the channel c.processingTokens
    aPc,            \* position of each pipeline
    aI,             \* loop index of the Retry in submitPackage
    aParent,        \* the context passed to submitPackage
    aCtx,           \* the per-attempt context (context.WithTimeout)
    aErr,           \* what the SubmitPackage call that ended last returned to the
                    \* Retry (NoErr once the next call is under way)
    aStatus,        \* the Read response of the current poll: <<status, failed jobs listed>>
    aIssued,        \* whether the current SubmitPackage call has issued its Submit RPC
    aAipUuid,       \* the aipUuid submitPackage returns
    \* ---- the /preserve handler
    activeRequests, \* the process-wide sync.Map: the set of its keys
    hPc,            \* position of each HTTP request
    hReq,           \* the decoded body of each request
    hStatus,        \* the HTTP status written
    hRan,           \* whether svc.RunArgs was called for the request
    hOutcome,       \* how svc.RunArgs ended: "ok" | "error" | "panic", "none" if not called or not ended
    \* ---- one Preserver.Run
    runPc,          \* position in Run
    runIn,          \* the arguments and the environment Run finds
    ctx,            \* Run's context
    err,            \* Run's local variable err
    retErr,         \* the error Run returns
    processingDip,  \* Run's local variable processingDip
    defers,         \* the deferred calls registered so far, oldest first
    fs,             \* which of the run's files exist on disk
    fsLog,          \* the removals done, in order
    presTag,        \* the values written to the preservation tag, in order
    dipTag,         \* the values written to the DIP tag, in order
    slugTag,        \* the values written to the atom-slug tag, in order
    tagCalls,       \* every tag update requested: <<updater, value, ok>>
    \* ---- one Service.Run
    sN,             \* len(paths)
    sPc,            \* position of Service.Run itself
    sLaunched,      \* how many goroutines the loop over paths has started
    sWaiting,       \* goroutines blocked at `semaphore <- struct{}{}`
    sRunning,       \* goroutines inside s.svc.Run
    sOk,            \* goroutines that ended after s.svc.Run returned nil
    sFailed,        \* goroutines that ended after s.svc.Run returned an error
    semaphore,      \* number of elements in the channel semaphore
    errChan,        \* number of errors in the channel errChan
    sResult,        \* what Service.Run returned
    \* ---- the tag namespaces, package-level variables shared by all runs
    preservationTagNamespace,
    dipTagNamespace,
    gPc,            \* position of each run in gatherNodeEnvironment and after
    gMeta,          \* which legacy keys the run's parent node has a value for
    gUpdaters,      \* the namespaces the run's tag updaters were created with
    gWrote,         \* the <<updater, namespace>> pairs the run has written to
    \* ---- the processing directories of the runs of one process
    baseDir,        \* the names of the subdirectories of the processing base directory
    uuidsDrawn,     \* the values uuid.New() has returned in this process
    dPc,            \* position of each run
    dTry,           \* rounds of the loop in MakeUniqueDir done so far
    dUid,           \* the name MakeUniqueDir settled on
    processingDir,  \* Run's local variable processingDir
    dFiles,         \* <<directory, run>>: the run has files in the directory
    \* ---- one utils.ExtractZip
    zArchive,       \* the names of the archive's entries, in order
    zI,             \* the entry the loop is at
    zCreated,       \* the paths of the files and directories that exist
    zResult,        \* "start" | "running" | "ok" | "error" | "cancelled" (ctx.Err())
    \* ---- one atom.Client.MigratePackage
    rsTokens,       \* the tokens the rsync command was configured from
    rsCommand,      \* c.config.RsyncCommand
    rsArgs,         \* RsyncFile's extraArgs
    rsI,            \* the argument the validation loop is at
    rsCmdArgs,      \* the arguments rsync was executed with, <<>> if it was not
    rsResult,       \* "start" | "validating" | "ok" | "error"
    \* ---- one execution of the command line tool without --serve
    cliIn,          \* what the execution finds
    cliPc,          \* position in main and RootCmd.Run
    cliErr,         \* what svc.RunArgs returned
    exitCode,       \* the exit code of the process, -1 while it runs
    \* ---- one call of a tag updater made by Preserver.createTagUpdater
    tScript,        \* the outcome of sdkUpdateUserMeta's 1st, 2nd, ... invocation
    tOuter,         \* loop index of the Retry in createTagUpdater
    tInner,         \* loop index of the Retry under WithRetry in Client.UpdateTag
    tErr,           \* the error the last invocation or the last UpdateTag returned
    tCalls,         \* how many times sdkUpdateUserMeta was invoked
    tPc,            \* "inner" | "outer" | "done"
    \* ---- one request given by a node: UnresolveCellsPath, then ResolveCellsPath
    pLogin,         \* userClient.UserData.Login
    pWorkspaces,    \* c.workspaceCollection.Workspaces
    pNodePath,      \* the node path of the request
    pUnresolved,    \* what UnresolveCellsPath returned
    pResolved,      \* what ResolveCellsPath returned
    pPc             \* "unresolve" | "resolve" | "done"

varsRetry == <<rScript, rI, rDelay, rErr, rCalls, rPc>>
varsAps == <<processingTokens, aPc, aI, aParent, aCtx, aErr, aStatus, aIssued, aAipUuid>>
varsServer == <<activeRequests, hPc, hReq, hStatus, hRan, hOutcome>>
varsRun == <<runPc, runIn, ctx, err, retErr, processingDip, defers, fs, fsLog,
             presTag, dipTag, slugTag, tagCalls>>
varsSvc == <<sN, sPc, sLaunched, sWaiting, sRunning, sOk, sFailed, semaphore, errChan, sResult>>
varsNs == <<preservationTagNamespace, dipTagNamespace, gPc, gMeta, gUpdaters, gWrote>>
varsOld == <<varsRetry, varsAps, varsServer, varsRun, varsSvc>>
varsDirs == <<baseDir, uuidsDrawn, dPc, dTry, dUid, processingDir, dFiles>>
varsZip == <<zArchive, zI, zCreated, zResult>>
varsRsync == <<rsTokens, rsCommand, rsArgs, rsI, rsCmdArgs, rsResult>>
varsCli == <<cliIn, cliPc, cliErr, exitCode>>
varsTag == <<tScript, tOuter, tInner, tErr, tCalls, tPc>>
varsPath == <<pLogin, pWorkspaces, pNodePath, pUnresolved, pResolved, pPc>>
varsRest == <<varsNs, varsDirs, varsZip, varsRsync, varsCli, varsTag, varsPath>>
notNs == <<varsDirs, varsZip, varsRsync, varsCli, varsTag, varsPath>>
notDirs == <<varsNs, varsZip, varsRsync, varsCli, varsTag, varsPath>>
notZip == <<varsNs, varsDirs, varsRsync, varsCli, varsTag, varsPath>>
notRsync == <<varsNs, varsDirs, varsZip, varsCli, varsTag, varsPath>>
notCli == <<varsNs, varsDirs, varsZip, varsRsync, varsTag, varsPath>>
notTag == <<varsNs, varsDirs, varsZip, varsRsync, varsCli, varsPath>>
notPath == <<varsNs, varsDirs, varsZip, varsRsync, varsCli, varsTag>>
vars == <<varsOld, varsRest>>

(***************************************************************************)
(* Errors.  A Go error is modelled by what IsTransientError can see of it: *)
(*   net   - errors.As(err, &net.Error) succeeds.  context.DeadlineExceeded*)
(*           has Timeout() and Temporary() and so is a net.Error.          *)
(*   text  - which of the substrings IsTransientError looks for occur in   *)
(*           err.Error()                                                   *)
(*   code  - the gRPC status code, "none" when status.FromError gives !ok  *)
(*   cause - "Canceled" / "DeadlineExceeded" when the failure is the       *)
(*           context being done, "none" otherwise                          *)
(***************************************************************************)
NoErr == [net |-> FALSE, text |-> {}, code |-> "nil", cause |-> "none"]

MkErr(net, text, code, cause) == [net |-> net, text |-> text, code |-> code, cause |-> cause]

\* fmt.Errorf("...: %w", ctx.Err()) with a fixed message
CtxErr(c) == MkErr(c = "DeadlineExceeded", {}, "none", c)

\* the status error a gRPC call returns when its context is done
GrpcCtxErr(c, text) == MkErr(FALSE, text, c, c)

\* a gRPC status error that does not come from the context
GrpcErr(code, text) == MkErr(FALSE, text, code, "none")

TransientCodes == {"Unavailable", "DeadlineExceeded", "ResourceExhausted", "Unknown"}

IsTransientError(e) ==
    IF e = NoErr THEN FALSE
    ELSE IF e.net THEN TRUE
    ELSE IF "timeout" \in e.text \/ "temporary unavailable" \in e.text THEN TRUE
    ELSE IF "no such host" \in e.text \/ "server misbehaving" \in e.text THEN TRUE
    ELSE IF "500" \in e.text \/ "502" \in e.text \/ "503" \in e.text \/ "504" \in e.text THEN TRUE
    ELSE e.code \in TransientCodes

(***************************************************************************)
(* utils.Retry.  One iteration of its loop, after operation() returned e   *)
(* in iteration i of `attempts`: return nil, return e, or sleep and loop.  *)
(***************************************************************************)
RetryDecision_NoStop(e, i, attempts) ==
    IF e = NoErr THEN "return_nil"
    ELSE IF i + 1 < attempts THEN "again" ELSE "return_err"

RetryDecision(e, i, attempts) ==
    IF e = NoErr THEN "return_nil"
    ELSE IF ~IsTransientError(e) THEN "return_err"
    ELSE IF i + 1 < attempts THEN "again" ELSE "return_err"

DefaultRetryAttempts == 3
DefaultInitialDelay == 1

\* the errors a scripted operation may return
ScriptErrs ==
    { MkErr(TRUE, {}, "none", "none"),               \* a net.Error
      MkErr(FALSE, {"timeout"}, "none", "none"),     \* "... timeout ..."
      MkErr(FALSE, {"503"}, "none", "none"),         \* "... 503 ..."
      GrpcErr("Unavailable", {}),
      GrpcErr("NotFound", {}),                       \* not transient
      MkErr(FALSE, {}, "none", "none"),              \* a plain error
      CtxErr("Canceled"),
      CtxErr("DeadlineExceeded") }

RetryInit ==
    /\ rScript \in [1..DefaultRetryAttempts -> ScriptErrs \cup {NoErr}]
    /\ rI = 0
    /\ rDelay = DefaultInitialDelay
    /\ rErr = NoErr
    /\ rCalls = 0
    /\ rPc = "loop"

RetryOff ==
    /\ rScript = <<>>
    /\ rI = 0
    /\ rDelay = 0
    /\ rErr = NoErr
    /\ rCalls = 0
    /\ rPc = "off"

\* WithRetry(operation): one pass of Retry's loop body, operation() included
WithRetryIteration ==
    /\ rPc = "loop"
    /\ rI < DefaultRetryAttempts
    /\ LET e == rScript[rCalls + 1]
           d == RetryDecision(e, rI, DefaultRetryAttempts)
       IN /\ rCalls' = rCalls + 1
          /\ rErr' = e
          /\ IF d = "again"
             THEN /\ rI' = rI + 1
                  /\ rDelay' = rDelay * 2
                  /\ rPc' = "loop"
             ELSE /\ rI' = rI
                  \* the last pass sleeps and doubles too before the loop ends
                  /\ rDelay' = IF e # NoErr /\ IsTransientError(e) THEN rDelay * 2 ELSE rDelay
                  /\ rPc' = "done"
    /\ UNCHANGED rScript
    /\ UNCHANGED <<varsAps, varsServer, varsRun, varsSvc, varsRest>>


RetryNext == WithRetryIteration

(***************************************************************************)
(* Client.SubmitPackage called through the Retry of Preserver.submitPackage*)
(* by NumPipelines pipelines sharing one a3m client.                       *)
(***************************************************************************)
NumPipelines == 2
Pipelines == 1..NumPipelines

MaxActiveProcessing == 1      \* NewService: a3mOptions.MaxActiveProcessing
SubmitRetryAttempts == 3      \* submitPackage: utils.Retry(3, ...)

\* transferservice.PackageStatus; "UNKNOWN" is any value outside the enum
PackageStatuses == {"UNSPECIFIED", "FAILED", "REJECTED", "PROCESSING", "COMPLETE", "UNKNOWN"}

\* what the dynamic part of an error message (package name, package id,
\* failed-job details) may contain of the substrings IsTransientError looks for
DynamicTexts == {{}, {"500"}}

\* the codes a Submit or Read RPC may fail with while its context is live
RpcFailureCodes == {"Unavailable", "InvalidArgument"}

\* context.WithTimeout(ctx, 30*time.Minute): done at once if the parent is
NewAttemptCtx(parent) == IF parent = "live" THEN "live" ELSE parent

ApsInit ==
    /\ processingTokens = 0
    /\ aPc = [p \in Pipelines |-> "acquire"]
    /\ aI = [p \in Pipelines |-> 0]
    /\ aParent = [p \in Pipelines |-> "live"]
    /\ aCtx = [p \in Pipelines |-> "live"]
    /\ aErr = [p \in Pipelines |-> NoErr]
    /\ aStatus = [p \in Pipelines |-> <<"none", FALSE>>]
    /\ aIssued = [p \in Pipelines |-> FALSE]
    /\ aAipUuid = [p \in Pipelines |-> ""]

ApsOff ==
    /\ processingTokens = 0
    /\ aPc = <<>>
    /\ aI = <<>>
    /\ aParent = <<>>
    /\ aCtx = <<>>
    /\ aErr = <<>>
    /\ aStatus = <<>>
    /\ aIssued = <<>>
    /\ aAipUuid = <<>>

AttemptReturns_KeepsSlotOnRetry(p, e, held) ==
    LET d == RetryDecision(e, aI[p], SubmitRetryAttempts)
    IN /\ processingTokens' = IF held /\ d # "again" THEN processingTokens - 1 ELSE processingTokens
       /\ aErr' = [aErr EXCEPT ![p] = e]
       /\ IF d = "again"
          THEN \* time.Sleep(delay); defer cancel() has released the context
               /\ aPc' = [aPc EXCEPT ![p] = "sleep"]
               /\ aI' = [aI EXCEPT ![p] = aI[p] + 1]
               /\ aCtx' = [aCtx EXCEPT ![p] = "released"]
               /\ aAipUuid' = [aAipUuid EXCEPT ![p] = ""]
               /\ aIssued' = [aIssued EXCEPT ![p] = FALSE]
          ELSE /\ aPc' = [aPc EXCEPT ![p] = "done"]
               /\ aI' = aI
               \* defer cancel(): the attempt's context is released
               /\ aCtx' = [aCtx EXCEPT ![p] = "released"]
               /\ aAipUuid' = [aAipUuid EXCEPT ![p] = IF e = NoErr THEN "id" ELSE ""]
               /\ aIssued' = aIssued
       /\ UNCHANGED aParent

\* SubmitPackage returned e (NoErr: success with id) to the Retry of
\* submitPackage; `held` tells whether the deferred release runs
AttemptReturns(p, e, held) ==
    LET d == RetryDecision(e, aI[p], SubmitRetryAttempts)
    IN /\ processingTokens' = IF held THEN processingTokens - 1 ELSE processingTokens
       /\ aErr' = [aErr EXCEPT ![p] = e]
       /\ IF d = "again"
          THEN \* time.Sleep(delay); defer cancel() has released the context
               /\ aPc' = [aPc EXCEPT ![p] = "sleep"]
               /\ aI' = [aI EXCEPT ![p] = aI[p] + 1]
               /\ aCtx' = [aCtx EXCEPT ![p] = "released"]
               /\ aAipUuid' = [aAipUuid EXCEPT ![p] = ""]
               /\ aIssued' = [aIssued EXCEPT ![p] = FALSE]
          ELSE /\ aPc' = [aPc EXCEPT ![p] = "done"]
               /\ aI' = aI
               \* defer cancel(): the attempt's context is released
               /\ aCtx' = [aCtx EXCEPT ![p] = "released"]
               /\ aAipUuid' = [aAipUuid EXCEPT ![p] = IF e = NoErr THEN "id" ELSE ""]
               /\ aIssued' = aIssued
       /\ UNCHANGED aParent

RetryAgain_CtxAfterSlot(p) ==
    /\ aPc[p] = "sleep"
    /\ aPc' = [aPc EXCEPT ![p] = "acquire"]
    /\ aErr' = [aErr EXCEPT ![p] = NoErr]
    /\ aStatus' = [aStatus EXCEPT ![p] = <<"none", FALSE>>]
    /\ UNCHANGED <<processingTokens, aI, aParent, aCtx, aIssued, aAipUuid>>
    /\ UNCHANGED <<varsRetry, varsServer, varsRun, varsSvc, varsRest>>

\* the Retry's sleep is over: its loop calls the operation again, which makes
\* a new context and calls SubmitPackage
RetryAgain(p) ==
    /\ aPc[p] = "sleep"
    /\ aPc' = [aPc EXCEPT ![p] = "acquire"]
    /\ aCtx' = [aCtx EXCEPT ![p] = NewAttemptCtx(aParent[p])]
    /\ aErr' = [aErr EXCEPT ![p] = NoErr]
    /\ aStatus' = [aStatus EXCEPT ![p] = <<"none", FALSE>>]
    /\ UNCHANGED <<processingTokens, aI, aParent, aIssued, aAipUuid>>
    /\ UNCHANGED <<varsRetry, varsServer, varsRun, varsSvc, varsRest>>

\* select: case c.processingTokens <- struct{}{}; then the Submit RPC is issued
AcquireSlot_NoLimit(p) ==
    /\ aPc[p] = "acquire"
    /\ processingTokens' = processingTokens + 1
    /\ aPc' = [aPc EXCEPT ![p] = "submitting"]
    /\ aIssued' = [aIssued EXCEPT ![p] = TRUE]
    /\ aStatus' = [aStatus EXCEPT ![p] = <<"none", FALSE>>]
    /\ UNCHANGED <<aI, aParent, aCtx, aErr, aAipUuid>>
    /\ UNCHANGED <<varsRetry, varsServer, varsRun, varsSvc, varsRest>>

AcquireSlot_Unbuffered(p) ==
    /\ aPc[p] = "acquire"
    /\ processingTokens < 0
    /\ processingTokens' = processingTokens + 1
    /\ aPc' = [aPc EXCEPT ![p] = "submitting"]
    /\ aIssued' = [aIssued EXCEPT ![p] = TRUE]
    /\ aStatus' = [aStatus EXCEPT ![p] = <<"none", FALSE>>]
    /\ UNCHANGED <<aI, aParent, aCtx, aErr, aAipUuid>>
    /\ UNCHANGED <<varsRetry, varsServer, varsRun, varsSvc, varsRest>>

AcquireSlot(p) ==
    /\ aPc[p] = "acquire"
    /\ processingTokens < MaxActiveProcessing
    /\ processingTokens' = processingTokens + 1
    /\ aPc' = [aPc EXCEPT ![p] = "submitting"]
    /\ aIssued' = [aIssued EXCEPT ![p] = TRUE]
    /\ aStatus' = [aStatus EXCEPT ![p] = <<"none", FALSE>>]
    /\ UNCHANGED <<aI, aParent, aCtx, aErr, aAipUuid>>
    /\ UNCHANGED <<varsRetry, varsServer, varsRun, varsSvc, varsRest>>

AcquireCtxDone_ReleasesSlot(p) ==
    /\ aPc[p] = "acquire"
    /\ aCtx[p] # "live"
    /\ AttemptReturns(p, CtxErr(aCtx[p]), TRUE)
    /\ UNCHANGED aStatus
    /\ UNCHANGED <<varsRetry, varsServer, varsRun, varsSvc, varsRest>>

\* select: case <-ctx.Done() while waiting for the slot
AcquireCtxDone(p) ==
    /\ aPc[p] = "acquire"
    /\ aCtx[p] # "live"
    /\ AttemptReturns(p, CtxErr(aCtx[p]), FALSE)
    /\ UNCHANGED aStatus
    /\ UNCHANGED <<varsRetry, varsServer, varsRun, varsSvc, varsRest>>

SubmitResponse_ReleaseEarly(p) ==
    /\ aPc[p] = "submitting"
    /\ aPc' = [aPc EXCEPT ![p] = "pollwait"]
    /\ processingTokens' = processingTokens - 1
    /\ UNCHANGED <<aI, aParent, aCtx, aErr, aStatus, aIssued, aAipUuid>>
    /\ UNCHANGED <<varsRetry, varsServer, varsRun, varsSvc, varsRest>>

\* c.client.Submit returns
SubmitResponse(p) ==
    /\ aPc[p] = "submitting"
    /\ IF aCtx[p] # "live"
       THEN AttemptReturns(p, GrpcCtxErr(aCtx[p], {}), TRUE)
       ELSE \/ /\ aPc' = [aPc EXCEPT ![p] = "pollwait"]
               /\ UNCHANGED <<processingTokens, aI, aParent, aCtx, aErr, aIssued, aAipUuid>>
            \/ \E c \in RpcFailureCodes : AttemptReturns(p, GrpcErr(c, {}), TRUE)
    /\ UNCHANGED aStatus
    /\ UNCHANGED <<varsRetry, varsServer, varsRun, varsSvc, varsRest>>

PollCtxDone_NoRelease(p) ==
    /\ aPc[p] = "pollwait"
    /\ aCtx[p] # "live"
    /\ AttemptReturns(p, CtxErr(aCtx[p]), FALSE)
    /\ aStatus' = [aStatus EXCEPT ![p] = <<"none", FALSE>>]
    /\ UNCHANGED <<varsRetry, varsServer, varsRun, varsSvc, varsRest>>

\* the poll loop's select: case <-ctx.Done()
PollCtxDone(p) ==
    /\ aPc[p] = "pollwait"
    /\ aCtx[p] # "live"
    /\ AttemptReturns(p, CtxErr(aCtx[p]), TRUE)
    /\ aStatus' = [aStatus EXCEPT ![p] = <<"none", FALSE>>]
    /\ UNCHANGED <<varsRetry, varsServer, varsRun, varsSvc, varsRest>>

\* what the switch on readResp.Status does: "continue", "ok" or the error
StatusOutcome_CompleteOnlyClean(status, failedJobs, text) ==
    CASE status = "PROCESSING" -> "continue"
      [] status = "COMPLETE" /\ ~failedJobs -> "ok"
      [] OTHER -> "error"

StatusOutcome(status, failedJobs, text) ==
    CASE status = "UNSPECIFIED" -> "error"
      [] status = "PROCESSING" -> "continue"
      [] status = "COMPLETE" -> "ok"
      [] status = "FAILED" -> "error"
      [] status = "REJECTED" -> "error"
      [] OTHER -> "error"

\* the poll loop's select: case <-time.After(PollInterval), then c.client.Read
\* and the switch on the status.  failedJobs: the response lists failed jobs;
\* t: what the message of the error built from the response contains
PollRead(p) ==
    /\ aPc[p] = "pollwait"
    /\ IF aCtx[p] # "live"
       THEN /\ \E t \in DynamicTexts : AttemptReturns(p, GrpcCtxErr(aCtx[p], t), TRUE)
            /\ aStatus' = [aStatus EXCEPT ![p] = <<"none", FALSE>>]
       ELSE \/ /\ \E c \in RpcFailureCodes : AttemptReturns(p, GrpcErr(c, {}), TRUE)
               /\ aStatus' = [aStatus EXCEPT ![p] = <<"none", FALSE>>]
            \/ \E s \in PackageStatuses, failedJobs \in BOOLEAN, t \in DynamicTexts :
                 LET o == StatusOutcome(s, failedJobs, t)
                 IN CASE o = "continue" ->
                           /\ t = {} /\ ~failedJobs
                           /\ aStatus' = [aStatus EXCEPT ![p] = <<s, FALSE>>]
                           /\ UNCHANGED <<processingTokens, aPc, aI, aParent, aCtx, aErr,
                                          aIssued, aAipUuid>>
                      [] o = "ok" ->
                           /\ t = {}
                           /\ aStatus' = [aStatus EXCEPT ![p] = <<s, failedJobs>>]
                           /\ AttemptReturns(p, NoErr, TRUE)
                      [] OTHER ->
                           \* FAILED, REJECTED: the message lists the details of the
                           \* failed jobs; otherwise it holds the package's name and id
                           /\ IF s \in {"FAILED", "REJECTED"}
                              THEN failedJobs = (t # {})
                              ELSE ~failedJobs \/ s = "COMPLETE"
                           /\ aStatus' = [aStatus EXCEPT ![p] = <<s, failedJobs>>]
                           /\ AttemptReturns(p, MkErr(FALSE, t, "none", "none"), TRUE)
    /\ UNCHANGED <<varsRetry, varsServer, varsRun, varsSvc, varsRest>>

\* the caller's context is cancelled
CancelPipeline(p) ==
    /\ aPc[p] # "done"
    /\ aParent[p] = "live"
    /\ aParent' = [aParent EXCEPT ![p] = "Canceled"]
    /\ aCtx' = [aCtx EXCEPT ![p] = IF aCtx[p] = "live" THEN "Canceled" ELSE aCtx[p]]
    /\ UNCHANGED <<processingTokens, aPc, aI, aErr, aStatus, aIssued, aAipUuid>>
    /\ UNCHANGED <<varsRetry, varsServer, varsRun, varsSvc, varsRest>>

\* the attempt's 30 minutes are over
AttemptDeadline(p) ==
    /\ aPc[p] # "done"
    /\ aCtx[p] = "live"
    /\ aCtx' = [aCtx EXCEPT ![p] = "DeadlineExceeded"]
    /\ UNCHANGED <<processingTokens, aPc, aI, aParent, aErr, aStatus, aIssued, aAipUuid>>
    /\ UNCHANGED <<varsRetry, varsServer, varsRun, varsSvc, varsRest>>

ApsNext ==
    \E p \in Pipelines :
        \/ RetryAgain(p)
        \/ AcquireSlot(p)
        \/ AcquireCtxDone(p)
        \/ SubmitResponse(p)
        \/ PollCtxDone(p)
        \/ PollRead(p)
        \/ CancelPipeline(p)
        \/ AttemptDeadline(p)

(***************************************************************************)
(* The /preserve handler.  Strings are sequences of characters.            *)
(***************************************************************************)
NumRequests == 2
Requests == 1..NumRequests

Str(c) == <<c>>

\* the request bodies that arrive: username, paths, nodes (their paths)
Bodies ==
    { [username |-> Str("u"), paths |-> <<Str("a"), Str("b")>>, nodes |-> <<>>],
      [username |-> Str("u"), paths |-> <<Str("b"), Str("a")>>, nodes |-> <<>>],
      [username |-> Str("u"), paths |-> << <<"a", ":", "b">> >>, nodes |-> <<>>],
      [username |-> Str("u"), paths |-> <<>>, nodes |-> <<Str("a"), Str("b")>>],
      [username |-> Str("v"), paths |-> <<Str("a"), Str("b")>>, nodes |-> <<>>],
      [username |-> <<>>, paths |-> <<Str("a")>>, nodes |-> <<>>],
      [username |-> Str("u"), paths |-> <<>>, nodes |-> <<>>] }

NoBody == [username |-> <<>>, paths |-> <<>>, nodes |-> <<>>]

\* id += ":" + x for every x of xs, in order
RECURSIVE AppendAll(_, _)
AppendAll(id, xs) ==
    IF xs = <<>> THEN id ELSE AppendAll(id \o <<":">> \o Head(xs), Tail(xs))

\* req.CellsPaths after the handler has filled it from the nodes
EffectivePaths(b) == IF Len(b.paths) = 0 THEN b.nodes ELSE b.paths

generateRequestID(req) == AppendAll(AppendAll(req.username, req.paths), req.nodes)

\* the id the handler computes for a decoded body
RequestIDOf(b) == generateRequestID([b EXCEPT !.paths = EffectivePaths(b)])

ServerInit ==
    /\ activeRequests = {}
    /\ hPc = [r \in Requests |-> "idle"]
    /\ hReq = [r \in Requests |-> NoBody]
    /\ hStatus = [r \in Requests |-> 0]
    /\ hRan = [r \in Requests |-> FALSE]
    /\ hOutcome = [r \in Requests |-> "none"]

ServerOff ==
    /\ activeRequests = {}
    /\ hPc = <<>>
    /\ hReq = <<>>
    /\ hStatus = <<>>
    /\ hRan = <<>>
    /\ hOutcome = <<>>

\* a request arrives: the handler up to and including LoadOrStore
HandlerAccept_NoDedup(r) ==
    /\ hPc[r] \in {"idle", "done"}
    /\ \E b \in Bodies :
         /\ hReq' = [hReq EXCEPT ![r] = b]
         /\ hOutcome' = [hOutcome EXCEPT ![r] = "none"]
         /\ IF b.username = <<>> \/ (Len(b.paths) = 0 /\ Len(b.nodes) = 0)
            THEN /\ hStatus' = [hStatus EXCEPT ![r] = 400]
                 /\ hPc' = [hPc EXCEPT ![r] = "done"]
                 /\ hRan' = [hRan EXCEPT ![r] = FALSE]
                 /\ UNCHANGED activeRequests
            ELSE /\ activeRequests' = activeRequests \cup {RequestIDOf(b)}
                 /\ hStatus' = [hStatus EXCEPT ![r] = 0]
                 /\ hPc' = [hPc EXCEPT ![r] = "running"]
                 /\ hRan' = [hRan EXCEPT ![r] = TRUE]
    /\ UNCHANGED <<varsRetry, varsAps, varsRun, varsSvc, varsRest>>

HandlerAccept_DeleteOnReject(r) ==
    /\ hPc[r] \in {"idle", "done"}
    /\ \E b \in Bodies :
         /\ hReq' = [hReq EXCEPT ![r] = b]
         /\ hOutcome' = [hOutcome EXCEPT ![r] = "none"]
         /\ IF b.username = <<>> \/ (Len(b.paths) = 0 /\ Len(b.nodes) = 0)
            THEN /\ hStatus' = [hStatus EXCEPT ![r] = 400]
                 /\ hPc' = [hPc EXCEPT ![r] = "done"]
                 /\ hRan' = [hRan EXCEPT ![r] = FALSE]
                 /\ UNCHANGED activeRequests
            ELSE IF RequestIDOf(b) \in activeRequests
            THEN /\ hStatus' = [hStatus EXCEPT ![r] = 409]
                 /\ hPc' = [hPc EXCEPT ![r] = "done"]
                 /\ hRan' = [hRan EXCEPT ![r] = FALSE]
                 /\ activeRequests' = activeRequests \ {RequestIDOf(b)}
            ELSE /\ activeRequests' = activeRequests \cup {RequestIDOf(b)}
                 /\ hStatus' = [hStatus EXCEPT ![r] = 0]
                 /\ hPc' = [hPc EXCEPT ![r] = "running"]
                 /\ hRan' = [hRan EXCEPT ![r] = TRUE]
    /\ UNCHANGED <<varsRetry, varsAps, varsRun, varsSvc, varsRest>>

HandlerAccept(r) ==
    /\ hPc[r] \in {"idle", "done"}
    /\ \E b \in Bodies :
         /\ hReq' = [hReq EXCEPT ![r] = b]
         /\ hOutcome' = [hOutcome EXCEPT ![r] = "none"]
         /\ IF b.username = <<>> \/ (Len(b.paths) = 0 /\ Len(b.nodes) = 0)
            THEN /\ hStatus' = [hStatus EXCEPT ![r] = 400]
                 /\ hPc' = [hPc EXCEPT ![r] = "done"]
                 /\ hRan' = [hRan EXCEPT ![r] = FALSE]
                 /\ UNCHANGED activeRequests
            ELSE IF RequestIDOf(b) \in activeRequests
            THEN /\ hStatus' = [hStatus EXCEPT ![r] = 409]
                 /\ hPc' = [hPc EXCEPT ![r] = "done"]
                 /\ hRan' = [hRan EXCEPT ![r] = FALSE]
                 /\ UNCHANGED activeRequests
            ELSE /\ activeRequests' = activeRequests \cup {RequestIDOf(b)}
                 /\ hStatus' = [hStatus EXCEPT ![r] = 0]
                 /\ hPc' = [hPc EXCEPT ![r] = "running"]
                 /\ hRan' = [hRan EXCEPT ![r] = TRUE]
    /\ UNCHANGED <<varsRetry, varsAps, varsRun, varsSvc, varsRest>>

HandlerFinish_KeepOnPanic(r) ==
    /\ hPc[r] = "running"
    /\ \E outcome \in {"ok", "error", "panic"} :
         /\ hOutcome' = [hOutcome EXCEPT ![r] = outcome]
         /\ hStatus' = [hStatus EXCEPT ![r] = IF outcome = "ok" THEN 200 ELSE 500]
         /\ activeRequests' = IF outcome = "panic" THEN activeRequests
                               ELSE activeRequests \ {RequestIDOf(hReq[r])}
    /\ hPc' = [hPc EXCEPT ![r] = "done"]
    /\ UNCHANGED <<hReq, hRan>>
    /\ UNCHANGED <<varsRetry, varsAps, varsRun, varsSvc, varsRest>>

HandlerFinish_ErrorIgnored(r) ==
    /\ hPc[r] = "running"
    /\ \E outcome \in {"ok", "error", "panic"} :
         /\ hOutcome' = [hOutcome EXCEPT ![r] = outcome]
         /\ hStatus' = [hStatus EXCEPT ![r] = IF outcome = "panic" THEN 500 ELSE 200]
    /\ activeRequests' = activeRequests \ {RequestIDOf(hReq[r])}
    /\ hPc' = [hPc EXCEPT ![r] = "done"]
    /\ UNCHANGED <<hReq, hRan>>
    /\ UNCHANGED <<varsRetry, varsAps, varsRun, varsSvc, varsRest>>

\* svc.RunArgs returns or panics; the deferred Delete runs; the status is written
HandlerFinish(r) ==
    /\ hPc[r] = "running"
    /\ \E outcome \in {"ok", "error", "panic"} :
         /\ hOutcome' = [hOutcome EXCEPT ![r] = outcome]
         /\ hStatus' = [hStatus EXCEPT ![r] = IF outcome = "ok" THEN 200 ELSE 500]
    /\ activeRequests' = activeRequests \ {RequestIDOf(hReq[r])}
    /\ hPc' = [hPc EXCEPT ![r] = "done"]
    /\ UNCHANGED <<hReq, hRan>>
    /\ UNCHANGED <<varsRetry, varsAps, varsRun, varsSvc, varsRest>>

ServerNext ==
    \E r \in Requests :
        \/ HandlerAccept(r)
        \/ HandlerFinish(r)

(***************************************************************************)
(* Preserver.Run: one pipeline run.  Tag values and error texts are        *)
(* sequences; an error text is a sequence of characters.  The tag values   *)
(* are the source's without the emoji each of them starts with.            *)
(***************************************************************************)
preservationTagStarting == <<"Starting...">>
preservationTagDownloading == <<"Downloading...">>
preservationTagPreprocessing == <<"Preprocessing...">>
preservationTagPackaging == <<"Packaging...">>
preservationTagExtracting == <<"Extracting...">>
preservationTagCompressing == <<"Compressing...">>
preservationTagWaiting == <<"Waiting...">>
preservationTagUploading == <<"Uploading...">>
preservationTagCompleted == <<"Preserved">>
preservationTagFailed == <<"Failed">>
preservationTagDipFailed == <<"DIP Failed">>
dipTagWaiting == <<"Waiting...">>
dipTagStarting == preservationTagStarting
dipTagMigrating == <<"Migrating...">>
dipTagDepositing == <<"Depositing...">>
dipTagCompleted == <<"Deposited">>
dipTagFailed == preservationTagFailed

TagErrorMaxLength == 100      \* utils.TruncateError(err.Error(), 100)

NilErr == [nil |-> TRUE, text |-> <<>>]
E(text) == [nil |-> FALSE, text |-> text]

\* strings.ReplaceAll(errMsg, "\n", " "), then cut to maxLength-3 and "..."
TruncateError_NoCut(errMsg, maxLength) ==
    [i \in 1..Len(errMsg) |-> IF errMsg[i] = "\n" THEN " " ELSE errMsg[i]]

TruncateError(errMsg, maxLength) ==
    LET m == [i \in 1..Len(errMsg) |-> IF errMsg[i] = "\n" THEN " " ELSE errMsg[i]]
    IN IF Len(m) <= maxLength THEN m
       ELSE SubSeq(m, 1, maxLength - 3) \o <<".", ".", ".">>

\* fmt.Sprintf("%s: %s", tag, text)
TagWithReason(tag, text) == tag \o <<": ">> \o text

\* fmt.Errorf(prefix + ": %w", err)
Wrap(prefix, e) == E(<<prefix>> \o e.text)

\* the texts err.Error() may have when a step fails
ErrTexts ==
    { <<"e", "\n", "r">>,
      [i \in 1..TagErrorMaxLength |-> "a"],
      [i \in 1..(TagErrorMaxLength + 1) |-> "b"] }

CtxText == <<"c", "t", "x", " ", "d", "o", "n", "e">>

RunInputs ==
    { in \in [ cleanUp : BOOLEAN,
               pathResolved : BOOLEAN,
               nodeSlug : {"", "\"\"", "node-slug"},  \* parent.MetaStore[atomSlugTagNamespace]
               cfgSlug : {"", "cfg-slug"},            \* pcfg.AtomConfig.Slug
               dipTagPrev : {"", "old"},              \* parent.MetaStore[dipTagNamespace]
               compressAip : BOOLEAN,
               atomCfgValid : BOOLEAN ] :             \* pcfg.AtomConfig.Validate() == nil
        \* Slug is `validate:"required"`
        in.atomCfgValid => in.cfgSlug # "" }

NoInput == [cleanUp |-> FALSE, pathResolved |-> FALSE, nodeSlug |-> "", cfgSlug |-> "",
            dipTagPrev |-> "", compressAip |-> FALSE, atomCfgValid |-> FALSE]

AtomSlug == IF runIn.nodeSlug = "" \/ runIn.nodeSlug = "\"\"" THEN runIn.cfgSlug ELSE runIn.nodeSlug
ProducingDip == AtomSlug # "" /\ AtomSlug # "\"\""

RunInit ==
    /\ runIn \in RunInputs
    /\ runPc = IF runIn.pathResolved THEN "unresolve" ELSE "gather"
    /\ ctx = "live"
    /\ err = NilErr
    /\ retErr = NilErr
    /\ processingDip = FALSE
    /\ defers = <<>>
    /\ fs = {}
    /\ fsLog = <<>>
    /\ presTag = <<>>
    /\ dipTag = <<>>
    /\ slugTag = <<>>
    /\ tagCalls = <<>>

RunOff ==
    /\ runIn = NoInput
    /\ runPc = "off"
    /\ ctx = "live"
    /\ err = NilErr
    /\ retErr = NilErr
    /\ processingDip = FALSE
    /\ defers = <<>>
    /\ fs = {}
    /\ fsLog = <<>>
    /\ presTag = <<>>
    /\ dipTag = <<>>
    /\ slugTag = <<>>
    /\ tagCalls = <<>>

\* the values of the successful updates among calls, for one updater
WrittenBy(calls, updater) ==
    LET sel == SelectSeq(calls, LAMBDA c : c[1] = updater /\ c[3])
    IN [i \in 1..Len(sel) |-> sel[i][2]]

\* tagUpdaters.X(ctx, value) for each <<X, value, ok>> of calls, in order
UpdateTags(calls) ==
    /\ tagCalls' = tagCalls \o calls
    /\ presTag' = presTag \o WrittenBy(calls, "Preservation")
    /\ dipTag' = dipTag \o WrittenBy(calls, "Dip")
    /\ slugTag' = slugTag \o WrittenBy(calls, "AtomSlug")

\* an operation that takes the context fails once the context is done
MaySucceed_IgnoreCtx(ctxAware) == TRUE

MaySucceed(ctxAware) == ~(ctxAware /\ ctx = "Canceled")

FailuresOf(ctxAware) ==
    IF ctxAware /\ ctx = "Canceled" THEN {E(CtxText)} ELSE {E(t) : t \in ErrTexts}

\* err = e; return fmt.Errorf(prefix, err)
Fails(e, prefix) ==
    /\ err' = e
    /\ retErr' = Wrap(prefix, e)
    /\ runPc' = "return"

TagStep_GoesOn(pcName, updater, value, prefix, next) ==
    /\ runPc = pcName
    /\ \E ok \in BOOLEAN :
         /\ ok => MaySucceed(TRUE)
         /\ UpdateTags(<< <<updater, value, ok>> >>)
    /\ runPc' = next
    /\ UNCHANGED <<err, retErr>>
    /\ UNCHANGED <<runIn, ctx, defers, fs, fsLog>>
    /\ UNCHANGED <<varsRetry, varsAps, varsServer, varsSvc, varsRest>>

\* if err = tagUpdaters.X(ctx, value); err != nil { return ... }
TagStep(pcName, updater, value, prefix, next) ==
    /\ runPc = pcName
    /\ \/ /\ MaySucceed(TRUE)
          /\ UpdateTags(<< <<updater, value, TRUE>> >>)
          /\ runPc' = next
          /\ UNCHANGED <<err, retErr>>
       \/ \E e \in FailuresOf(TRUE) :
            /\ UpdateTags(<< <<updater, value, FALSE>> >>)
            /\ Fails(e, prefix)
    /\ UNCHANGED <<runIn, ctx, defers, fs, fsLog>>
    /\ UNCHANGED <<varsRetry, varsAps, varsServer, varsSvc, varsRest>>

\* x, err = work(...); if err != nil { return ... }
WorkStep(pcName, ctxAware, prefix, next) ==
    /\ runPc = pcName
    /\ \/ /\ MaySucceed(ctxAware)
          /\ runPc' = next
          /\ UNCHANGED <<err, retErr>>
       \/ \E e \in FailuresOf(ctxAware) : Fails(e, prefix)
    /\ UNCHANGED <<runIn, ctx, defers, fs, fsLog, presTag, dipTag, slugTag, tagCalls>>
    /\ UNCHANGED <<varsRetry, varsAps, varsServer, varsSvc, varsRest>>

AfterStarting == IF ~ProducingDip /\ runIn.dipTagPrev = "" THEN "mkdir" ELSE "dipTagInit"
AfterAip_Always == "dipTagStarting"

AfterAip == IF ProducingDip THEN "dipTagStarting" ELSE "tagUploading"
AfterExtract == IF runIn.compressAip THEN "tagCompressing" ELSE AfterAip
AfterVerify == IF ProducingDip THEN "tagAtomSlug" ELSE "tagPreserved"

UnresolvePath ==
    /\ WorkStep("unresolve", FALSE, "error unresolving cells path: ", "gather")
    /\ UNCHANGED processingDip

\* gatherNodeEnvironment, then the failure handler is deferred
GatherNodeEnvironment ==
    /\ runPc = "gather"
    /\ \/ /\ MaySucceed(TRUE)
          /\ runPc' = "tagStarting"
          /\ defers' = Append(defers, "failTag")
          /\ UNCHANGED <<err, retErr>>
       \/ /\ \E e \in FailuresOf(TRUE) : Fails(e, "error gathering node environment: ")
          /\ UNCHANGED defers
    /\ UNCHANGED <<runIn, ctx, processingDip, fs, fsLog, presTag, dipTag, slugTag, tagCalls>>
    /\ UNCHANGED <<varsRetry, varsAps, varsServer, varsSvc, varsRest>>

TagStarting ==
    /\ TagStep("tagStarting", "Preservation", preservationTagStarting,
               "error updating Preservation tag: ", AfterStarting)
    /\ UNCHANGED processingDip

\* clear the DIP tag, or set it to Waiting when there is a slug
DipTagInit ==
    /\ TagStep("dipTagInit", "Dip", IF ProducingDip THEN dipTagWaiting ELSE <<>>,
               "error updating AtoM tag: ", "mkdir")
    /\ UNCHANGED processingDip

\* utils.MakeUniqueDir, then the removal of the directory is deferred
MakeProcessingDir ==
    /\ runPc = "mkdir"
    /\ \/ /\ runPc' = "tagDownloading"
          /\ fs' = fs \cup {"proc"}
          /\ defers' = Append(defers, "rmProc")
          /\ UNCHANGED <<err, retErr>>
       \/ /\ \E e \in FailuresOf(FALSE) : Fails(e, "failed to create processing directory: ")
          /\ UNCHANGED <<fs, defers>>
    /\ UNCHANGED <<runIn, ctx, processingDip, fsLog, presTag, dipTag, slugTag, tagCalls>>
    /\ UNCHANGED <<varsRetry, varsAps, varsServer, varsSvc, varsRest>>

TagDownloading ==
    /\ TagStep("tagDownloading", "Preservation", preservationTagDownloading,
               "error updating Preservation tag: ", "download")
    /\ UNCHANGED processingDip

DownloadPackage ==
    /\ WorkStep("download", TRUE, "error downloading package: ", "tagPreprocessing")
    /\ UNCHANGED processingDip

TagPreprocessing ==
    /\ TagStep("tagPreprocessing", "Preservation", preservationTagPreprocessing,
               "error updating Preservation tag: ", "preprocess")
    /\ UNCHANGED processingDip

PreprocessPackage ==
    /\ WorkStep("preprocess", TRUE, "error preprocessing package: ", "tagPackaging")
    /\ UNCHANGED processingDip

TagPackaging_Skipped ==
    /\ runPc = "tagPackaging"
    /\ runPc' = "submit"
    /\ UNCHANGED <<runIn, ctx, err, retErr, processingDip, defers, fs, fsLog,
                   presTag, dipTag, slugTag, tagCalls>>
    /\ UNCHANGED <<varsRetry, varsAps, varsServer, varsSvc, varsRest>>

TagPackaging ==
    /\ TagStep("tagPackaging", "Preservation", preservationTagPackaging,
               "error updating Preservation tag: ", "submit")
    /\ UNCHANGED processingDip

\* p.submitPackage, then getA3mAipPath, then the removal of the AIP is deferred.
\* When the submission completes, the APS has written the AIP to its completed
\* directory and may have written a DIP directory.
SubmitAndLocateAip ==
    /\ runPc = "submit"
    /\ \/ /\ MaySucceed(TRUE)
          /\ \E aipWritten \in BOOLEAN, dipWritten \in BOOLEAN :
               /\ fs' = fs \cup (IF aipWritten THEN {"aip"} ELSE {})
                           \cup (IF dipWritten THEN {"dip"} ELSE {})
               /\ IF aipWritten
                  THEN /\ runPc' = "tagExtracting"
                       /\ defers' = Append(defers, "rmAip")
                       /\ UNCHANGED <<err, retErr>>
                  ELSE /\ Fails(E(<<"n", "o", "e", "n", "t">>), "error getting A3M AIP path: ")
                       /\ UNCHANGED defers
       \/ /\ \E e \in FailuresOf(TRUE) : Fails(e, "failed to submit package: ")
          /\ UNCHANGED <<fs, defers>>
    /\ UNCHANGED <<runIn, ctx, processingDip, fsLog, presTag, dipTag, slugTag, tagCalls>>
    /\ UNCHANGED <<varsRetry, varsAps, varsServer, varsSvc, varsRest>>

TagExtracting ==
    /\ TagStep("tagExtracting", "Preservation", preservationTagExtracting,
               "error updating Preservation tag: ", "extract")
    /\ UNCHANGED processingDip

PostprocessPackage ==
    /\ WorkStep("extract", TRUE, "error postprocessing package: ", AfterExtract)
    /\ UNCHANGED processingDip

TagCompressing ==
    /\ TagStep("tagCompressing", "Preservation", preservationTagCompressing,
               "error updating Preservation tag: ", "compress")
    /\ UNCHANGED processingDip

CompressPackage ==
    /\ WorkStep("compress", TRUE, "error compressing AIP: ", AfterAip)
    /\ UNCHANGED processingDip

\* processingDip = true, then the DIP tag is set to Starting
DipTagStarting ==
    /\ TagStep("dipTagStarting", "Dip", dipTagStarting, "error updating AtoM tag: ", "tagWaiting")
    /\ processingDip' = TRUE

TagWaiting ==
    /\ TagStep("tagWaiting", "Preservation", preservationTagWaiting,
               "error updating Preservation tag: ", "atomClient")
    /\ UNCHANGED processingDip

\* atom.NewClient (its Close is deferred), then getA3mDipPath, then the removal
\* of the DIP directory is deferred
CreateAtomClientAndLocateDip ==
    /\ runPc = "atomClient"
    /\ IF ~runIn.atomCfgValid
       THEN /\ Fails(E(<<"i", "n", "v", "a", "l", "i", "d">>), "error creating AtoM client: ")
            /\ UNCHANGED defers
       ELSE IF "dip" \notin fs
       THEN /\ Fails(E(<<"n", "o", "e", "n", "t">>), "error getting A3M DIP path: ")
            /\ defers' = Append(defers, "closeAtom")
       ELSE /\ runPc' = "dipTagMigrating"
            /\ defers' = defers \o <<"closeAtom", "rmDip">>
            /\ UNCHANGED <<err, retErr>>
    /\ UNCHANGED <<runIn, ctx, processingDip, fs, fsLog, presTag, dipTag, slugTag, tagCalls>>
    /\ UNCHANGED <<varsRetry, varsAps, varsServer, varsSvc, varsRest>>

DipTagMigrating ==
    /\ TagStep("dipTagMigrating", "Dip", dipTagMigrating, "error updating AtoM tag: ", "migrate")
    /\ UNCHANGED processingDip

MigratePackage ==
    /\ WorkStep("migrate", TRUE, "error migrating DIP to AtoM: ", "dipTagDepositing")
    /\ UNCHANGED processingDip

DipTagDepositing ==
    /\ TagStep("dipTagDepositing", "Dip", dipTagDepositing, "error updating AtoM tag: ", "deposit")
    /\ UNCHANGED processingDip

DepositDip ==
    /\ WorkStep("deposit", TRUE, "error depositing DIP to AtoM: ", "tagDeposited")
    /\ UNCHANGED processingDip

\* tagUpdaters.Preservation(ctx, dipTagCompleted), then processingDip = false
TagDeposited ==
    /\ TagStep("tagDeposited", "Preservation", dipTagCompleted,
               "error updating Preservation tag: ", "tagUploading")
    /\ processingDip' = (runPc' # "tagUploading")

TagUploading ==
    /\ TagStep("tagUploading", "Preservation", preservationTagUploading,
               "error updating Preservation tag: ", "upload")
    /\ UNCHANGED processingDip

\* p.uploadPackage: when it reports success, the AIP node is normally in the
\* CMS, but nothing in the upload itself guarantees it
UploadPackage ==
    /\ runPc = "upload"
    /\ \/ /\ MaySucceed(TRUE)
          /\ \E nodeThere \in BOOLEAN :
               fs' = fs \cup (IF nodeThere THEN {"cellsAip"} ELSE {})
          /\ runPc' = "verify"
          /\ UNCHANGED <<err, retErr>>
       \/ /\ \E e \in FailuresOf(TRUE) : Fails(e, "error uploading AIP: ")
          /\ UNCHANGED fs
    /\ UNCHANGED <<runIn, ctx, processingDip, defers, fsLog, presTag, dipTag, slugTag, tagCalls>>
    /\ UNCHANGED <<varsRetry, varsAps, varsServer, varsSvc, varsRest>>

VerifyUpload_NoStat ==
    /\ runPc = "verify"
    /\ \/ /\ MaySucceed(TRUE)
          /\ runPc' = AfterVerify
          /\ UNCHANGED <<err, retErr>>
       \/ \E e \in FailuresOf(FALSE) : Fails(e, "error resolving upload path: ")
    /\ UNCHANGED <<runIn, ctx, processingDip, defers, fs, fsLog, presTag, dipTag, slugTag, tagCalls>>
    /\ UNCHANGED <<varsRetry, varsAps, varsServer, varsSvc, varsRest>>

\* ResolveCellsPath of the upload path, then getNodeStats: the stat call fails,
\* or gives no node, when the node is not there
VerifyUpload ==
    /\ runPc = "verify"
    /\ \/ /\ "cellsAip" \in fs
          /\ MaySucceed(TRUE)
          /\ runPc' = AfterVerify
          /\ UNCHANGED <<err, retErr>>
       \/ \E e \in FailuresOf(FALSE) : Fails(e, "error resolving upload path: ")
       \/ \E e \in FailuresOf(TRUE) : Fails(e, "error getting node stats: ")
    /\ UNCHANGED <<runIn, ctx, processingDip, defers, fs, fsLog, presTag, dipTag, slugTag, tagCalls>>
    /\ UNCHANGED <<varsRetry, varsAps, varsServer, varsSvc, varsRest>>

TagAtomSlug ==
    /\ TagStep("tagAtomSlug", "AtomSlug", <<AtomSlug>>, "error updating Atom Slug tag: ",
               "tagPreserved")
    /\ UNCHANGED processingDip

TagPreserved ==
    /\ TagStep("tagPreserved", "Preservation", preservationTagCompleted,
               "error updating Preservation tag: ", "return")
    /\ UNCHANGED processingDip

\* what a deferred removal removes
RemovalTarget(d) ==
    CASE d = "rmProc" -> "proc"
      [] d = "rmAip" -> "aip"
      [] d = "rmDip" -> "dip"

\* the paths the deferred calls ds remove, last registered first
RECURSIVE Removals(_, _)
Removals(ds, cleanUp) ==
    IF ds = <<>> THEN <<>>
    ELSE LET d == ds[Len(ds)]
         IN (IF cleanUp /\ d \in {"rmProc", "rmAip", "rmDip"} THEN <<RemovalTarget(d)>> ELSE <<>>)
            \o Removals(SubSeq(ds, 1, Len(ds) - 1), cleanUp)

\* the tag updates of the deferred failure handler; ok1, ok2: whether the
\* first and the second update succeed
FailureTagCalls_IgnoreDip(e, inDip, ok1, ok2) ==
    IF e.nil THEN <<>>
    ELSE << <<"Preservation",
              TagWithReason(preservationTagFailed, TruncateError(e.text, TagErrorMaxLength)),
              ok1>> >>

FailureTagCalls(e, inDip, ok1, ok2) ==
    IF e.nil THEN <<>>
    ELSE IF ~inDip
    THEN << <<"Preservation",
              TagWithReason(preservationTagFailed, TruncateError(e.text, TagErrorMaxLength)),
              ok1>> >>
    ELSE << <<"Dip",
              TagWithReason(dipTagFailed, TruncateError(e.text, TagErrorMaxLength)),
              ok1>>,
            <<"Preservation", preservationTagDipFailed, ok2>> >>

\* Run returns: the deferred calls run, last registered first; the failure
\* handler was registered first and runs last
RunReturn ==
    /\ runPc = "return"
    /\ LET removed == Removals(defers, runIn.cleanUp)
       IN /\ fs' = fs \ {removed[i] : i \in 1..Len(removed)}
          /\ fsLog' = fsLog \o removed
    /\ IF defers # <<>> /\ Head(defers) = "failTag" /\ ~err.nil
       THEN \E ok1 \in BOOLEAN, ok2 \in BOOLEAN :
              \* the updates are made with the run's context
              /\ (ctx = "Canceled") => (~ok1 /\ ~ok2)
              /\ ~processingDip => ok2 = ok1
              /\ UpdateTags(FailureTagCalls(err, processingDip, ok1, ok2))
       ELSE UNCHANGED <<tagCalls, presTag, dipTag, slugTag>>
    /\ runPc' = "done"
    /\ UNCHANGED <<runIn, ctx, err, retErr, processingDip, defers>>
    /\ UNCHANGED <<varsRetry, varsAps, varsServer, varsSvc, varsRest>>

\* the run's context is cancelled while the run is at work
CancelRun ==
    /\ runPc \notin {"done", "off"}
    /\ ~(runPc = "return" /\ err.nil)
    /\ ctx = "live"
    /\ ctx' = "Canceled"
    /\ UNCHANGED <<runPc, runIn, err, retErr, processingDip, defers, fs, fsLog,
                   presTag, dipTag, slugTag, tagCalls>>
    /\ UNCHANGED <<varsRetry, varsAps, varsServer, varsSvc, varsRest>>

RunNext ==
    \/ UnresolvePath
    \/ GatherNodeEnvironment
    \/ TagStarting
    \/ DipTagInit
    \/ MakeProcessingDir
    \/ TagDownloading
    \/ DownloadPackage
    \/ TagPreprocessing
    \/ PreprocessPackage
    \/ TagPackaging
    \/ SubmitAndLocateAip
    \/ TagExtracting
    \/ PostprocessPackage
    \/ TagCompressing
    \/ CompressPackage
    \/ DipTagStarting
    \/ TagWaiting
    \/ CreateAtomClientAndLocateDip
    \/ DipTagMigrating
    \/ MigratePackage
    \/ DipTagDepositing
    \/ DepositDip
    \/ TagDeposited
    \/ TagUploading
    \/ UploadPackage
    \/ VerifyUpload
    \/ TagAtomSlug
    \/ TagPreserved
    \/ RunReturn
    \/ CancelRun

(***************************************************************************)
(* Service.Run: one goroutine per path, at most maxWorkers of them inside  *)
(* the pipeline.  The goroutines are counted by position.                  *)
(***************************************************************************)
NumPaths == 11
maxWorkers == 10              \* Service.Run: maxWorkers := 10

SvcInit ==
    /\ sN \in 0..NumPaths
    /\ sPc = "newUserClient"
    /\ sLaunched = 0
    /\ sWaiting = 0
    /\ sRunning = 0
    /\ sOk = 0
    /\ sFailed = 0
    /\ semaphore = 0
    /\ errChan = 0
    /\ sResult = "none"

SvcOff ==
    /\ sN = 0
    /\ sPc = "off"
    /\ sLaunched = 0
    /\ sWaiting = 0
    /\ sRunning = 0
    /\ sOk = 0
    /\ sFailed = 0
    /\ semaphore = 0
    /\ errChan = 0
    /\ sResult = "none"

\* userClient, err := s.svc.NewUserClient(ctx, username)
NewUserClient ==
    /\ sPc = "newUserClient"
    /\ \/ sPc' = "launch" /\ sResult' = sResult
       \/ sPc' = "returned" /\ sResult' = "userClientError"
    /\ UNCHANGED <<sN, sLaunched, sWaiting, sRunning, sOk, sFailed, semaphore, errChan>>
    /\ UNCHANGED <<varsRetry, varsAps, varsServer, varsRun, varsRest>>

\* one pass of the loop over paths: wg.Add(1); go func(path) {...}
LaunchPipeline ==
    /\ sPc = "launch"
    /\ sLaunched < sN
    /\ sLaunched' = sLaunched + 1
    /\ sWaiting' = sWaiting + 1
    /\ UNCHANGED <<sN, sPc, sRunning, sOk, sFailed, semaphore, errChan, sResult>>
    /\ UNCHANGED <<varsRetry, varsAps, varsServer, varsRun, varsRest>>

\* the loop over paths is over: wg.Wait() is called
LaunchDone ==
    /\ sPc = "launch"
    /\ sLaunched = sN
    /\ sPc' = "wait"
    /\ UNCHANGED <<sN, sLaunched, sWaiting, sRunning, sOk, sFailed, semaphore, errChan, sResult>>
    /\ UNCHANGED <<varsRetry, varsAps, varsServer, varsRun, varsRest>>

WorkerAcquire_NoLimit ==
    /\ sWaiting > 0
    /\ semaphore' = semaphore + 1
    /\ sWaiting' = sWaiting - 1
    /\ sRunning' = sRunning + 1
    /\ UNCHANGED <<sN, sPc, sLaunched, sOk, sFailed, errChan, sResult>>
    /\ UNCHANGED <<varsRetry, varsAps, varsServer, varsRun, varsRest>>

\* semaphore <- struct{}{}, then the goroutine calls s.svc.Run
WorkerAcquire ==
    /\ sWaiting > 0
    /\ semaphore < maxWorkers
    /\ semaphore' = semaphore + 1
    /\ sWaiting' = sWaiting - 1
    /\ sRunning' = sRunning + 1
    /\ UNCHANGED <<sN, sPc, sLaunched, sOk, sFailed, errChan, sResult>>
    /\ UNCHANGED <<varsRetry, varsAps, varsServer, varsRun, varsRest>>

\* s.svc.Run returned nil: break; the deferred <-semaphore and wg.Done() run
PipelineSucceeds ==
    /\ sRunning > 0
    /\ sRunning' = sRunning - 1
    /\ sOk' = sOk + 1
    /\ semaphore' = semaphore - 1
    /\ UNCHANGED <<sN, sPc, sLaunched, sWaiting, sFailed, errChan, sResult>>
    /\ UNCHANGED <<varsRetry, varsAps, varsServer, varsRun, varsRest>>

PipelineFails_NoReport ==
    /\ sRunning > 0
    /\ sRunning' = sRunning - 1
    /\ sFailed' = sFailed + 1
    /\ semaphore' = semaphore - 1
    /\ UNCHANGED <<sN, sPc, sLaunched, sWaiting, sOk, errChan, sResult>>
    /\ UNCHANGED <<varsRetry, varsAps, varsServer, varsRun, varsRest>>

PipelineFails_KeepsSlot ==
    /\ sRunning > 0
    /\ errChan < sN
    /\ sRunning' = sRunning - 1
    /\ sFailed' = sFailed + 1
    /\ errChan' = errChan + 1
    /\ UNCHANGED <<sN, sPc, sLaunched, sWaiting, sOk, semaphore, sResult>>
    /\ UNCHANGED <<varsRetry, varsAps, varsServer, varsRun, varsRest>>

\* s.svc.Run returned an error in the only attempt (maxRetries = 1):
\* errChan <- err, which needs room in the channel made with
\* make(chan error, len(paths)); the deferred <-semaphore and wg.Done() run
PipelineFails ==
    /\ sRunning > 0
    /\ errChan < sN
    /\ sRunning' = sRunning - 1
    /\ sFailed' = sFailed + 1
    /\ errChan' = errChan + 1
    /\ semaphore' = semaphore - 1
    /\ UNCHANGED <<sN, sPc, sLaunched, sWaiting, sOk, sResult>>
    /\ UNCHANGED <<varsRetry, varsAps, varsServer, varsRun, varsRest>>

\* wg.Wait() returns; close(errChan); if err := <-errChan; err != nil {...}
ServiceReturn ==
    /\ sPc = "wait"
    /\ sOk + sFailed = sLaunched
    /\ sResult' = IF errChan > 0 THEN "error" ELSE "nil"
    /\ errChan' = IF errChan > 0 THEN errChan - 1 ELSE 0
    /\ sPc' = "returned"
    /\ UNCHANGED <<sN, sLaunched, sWaiting, sRunning, sOk, sFailed, semaphore>>
    /\ UNCHANGED <<varsRetry, varsAps, varsServer, varsRun, varsRest>>

SvcNext ==
    \/ NewUserClient
    \/ LaunchPipeline
    \/ LaunchDone
    \/ WorkerAcquire
    \/ PipelineSucceeds
    \/ PipelineFails
    \/ ServiceReturn

(***************************************************************************)
(* The tag namespaces.  preservationTagNamespace and dipTagNamespace are   *)
(* package-level variables: gatherNodeEnvironment assigns them when the    *)
(* parent node has a value under a legacy key, and then creates the run's  *)
(* tag updaters with whatever the variables hold.  Runs are goroutines of  *)
(* one process and nothing synchronises their accesses.                    *)
(***************************************************************************)
NumRuns == 2
Runs == 1..NumRuns

NsInit ==
    /\ preservationTagNamespace = "usermeta-preservation-status"
    /\ dipTagNamespace = "usermeta-dip-status"
    /\ gPc = [k \in Runs |-> "check"]
    /\ gMeta \in [Runs -> [a3mProgress : BOOLEAN, dipProgress : BOOLEAN]]
    /\ gUpdaters = [k \in Runs |-> <<>>]
    /\ gWrote = [k \in Runs |-> {}]

NsOff ==
    /\ preservationTagNamespace = "usermeta-preservation-status"
    /\ dipTagNamespace = "usermeta-dip-status"
    /\ gPc = [k \in Runs |-> "off"]
    /\ gMeta = [k \in Runs |-> [a3mProgress |-> FALSE, dipProgress |-> FALSE]]
    /\ gUpdaters = [k \in Runs |-> <<>>]
    /\ gWrote = [k \in Runs |-> {}]

\* if MetaStore["usermeta-a3m-progress"] != "" { preservationTagNamespace = ... }
\* if MetaStore["usermeta-dip-progress"] != "" { dipTagNamespace = ... }
CheckOldNamespaces(k) ==
    /\ gPc[k] = "check"
    /\ preservationTagNamespace' =
         IF gMeta[k].a3mProgress THEN "usermeta-a3m-progress" ELSE preservationTagNamespace
    /\ dipTagNamespace' =
         IF gMeta[k].dipProgress THEN "usermeta-dip-progress" ELSE dipTagNamespace
    /\ gPc' = [gPc EXCEPT ![k] = "create"]
    /\ UNCHANGED <<gMeta, gUpdaters, gWrote>>
    /\ UNCHANGED <<varsOld, notNs>>

\* What a read of a package-level string gives.  A read that is concurrent
\* with another run's assignment of a different value is a data race: it
\* gives the old value, the new one, or a mix of the two string headers.
RacyRead(k, current, legacy, key) ==
    {current} \cup
    IF current # legacy /\ \E j \in Runs \ {k} : gPc[j] = "check" /\ gMeta[j][key]
    THEN {legacy, "torn"}
    ELSE {}

\* p.createTagUpdater(userClient, parentNodeUuid, preservationTagNamespace) and
\* p.createTagUpdater(userClient, parentNodeUuid, dipTagNamespace)
CreateTagUpdaters(k) ==
    /\ gPc[k] = "create"
    /\ \E pn \in RacyRead(k, preservationTagNamespace, "usermeta-a3m-progress", "a3mProgress"),
          dn \in RacyRead(k, dipTagNamespace, "usermeta-dip-progress", "dipProgress") :
         gUpdaters' = [gUpdaters EXCEPT ![k] = [Preservation |-> pn, Dip |-> dn]]
    /\ gPc' = [gPc EXCEPT ![k] = "run"]
    /\ UNCHANGED <<preservationTagNamespace, dipTagNamespace, gMeta, gWrote>>
    /\ UNCHANGED <<varsOld, notNs>>

\* tagUpdaters.Preservation(ctx, ...) or tagUpdaters.Dip(ctx, ...) in Run
UpdateTag(k) ==
    /\ gPc[k] = "run"
    /\ \E u \in {"Preservation", "Dip"} :
         /\ <<u, gUpdaters[k][u]>> \notin gWrote[k]
         /\ gWrote' = [gWrote EXCEPT ![k] = @ \cup {<<u, gUpdaters[k][u]>>}]
    /\ UNCHANGED <<preservationTagNamespace, dipTagNamespace, gPc, gMeta, gUpdaters>>
    /\ UNCHANGED <<varsOld, notNs>>

RunEnds(k) ==
    /\ gPc[k] = "run"
    /\ gPc' = [gPc EXCEPT ![k] = "done"]
    /\ UNCHANGED <<preservationTagNamespace, dipTagNamespace, gMeta, gUpdaters, gWrote>>
    /\ UNCHANGED <<varsOld, notNs>>

NsNext ==
    \E k \in Runs :
        \/ CheckOldNamespaces(k)
        \/ CreateTagUpdaters(k)
        \/ UpdateTag(k)
        \/ RunEnds(k)

(***************************************************************************)
(* Processing directories.  Each run calls utils.MakeUniqueDir on the same *)
(* base directory: it draws a UUID, looks whether a directory of that name *)
(* exists (os.Stat) and, if not, creates it with os.MkdirAll, which also   *)
(* succeeds when the directory exists.  The run works in the directory and *)
(* removes it when it returns with cleanUp set.  uuid.New() gives a random *)
(* version 4 UUID: it does not give the same value twice, but the base     *)
(* directory may hold a directory of that name from elsewhere.             *)
(***************************************************************************)
Leftovers == {"u1", "u2"}
UuidPool == Leftovers \cup {"r" \o ToString(k) : k \in Runs}
MakeUniqueDirTries == 5

DirsInit ==
    /\ baseDir \in SUBSET Leftovers
    /\ uuidsDrawn = {}
    /\ dPc = [k \in Runs |-> "stat"]
    /\ dTry = [k \in Runs |-> 0]
    /\ dUid = [k \in Runs |-> ""]
    /\ processingDir = [k \in Runs |-> ""]
    /\ dFiles = {}

DirsOff ==
    /\ baseDir = {}
    /\ uuidsDrawn = {}
    /\ dPc = [k \in Runs |-> "off"]
    /\ dTry = [k \in Runs |-> 0]
    /\ dUid = [k \in Runs |-> ""]
    /\ processingDir = [k \in Runs |-> ""]
    /\ dFiles = {}

MakeUniqueDirStat_FixedName(k) ==
    /\ dPc[k] = "stat"
    /\ \E uid \in {"u1"} :
         /\ uuidsDrawn' = uuidsDrawn \cup {uid}
         /\ IF uid \notin baseDir
            THEN /\ dUid' = [dUid EXCEPT ![k] = uid]
                 /\ dPc' = [dPc EXCEPT ![k] = "mkdir"]
                 /\ UNCHANGED dTry
            ELSE /\ dTry' = [dTry EXCEPT ![k] = @ + 1]
                 /\ dPc' = [dPc EXCEPT ![k] = IF dTry[k] + 1 = MakeUniqueDirTries
                                              THEN "failed" ELSE "stat"]
                 /\ UNCHANGED dUid
    /\ UNCHANGED <<baseDir, processingDir, dFiles>>
    /\ UNCHANGED <<varsOld, notDirs>>

\* one round of the loop: uuid.New(), then os.Stat of the name
MakeUniqueDirStat(k) ==
    /\ dPc[k] = "stat"
    /\ \E uid \in UuidPool \ uuidsDrawn :
         /\ uuidsDrawn' = uuidsDrawn \cup {uid}
         /\ IF uid \notin baseDir
            THEN /\ dUid' = [dUid EXCEPT ![k] = uid]
                 /\ dPc' = [dPc EXCEPT ![k] = "mkdir"]
                 /\ UNCHANGED dTry
            ELSE /\ dTry' = [dTry EXCEPT ![k] = @ + 1]
                 /\ dPc' = [dPc EXCEPT ![k] = IF dTry[k] + 1 = MakeUniqueDirTries
                                              THEN "failed" ELSE "stat"]
                 /\ UNCHANGED dUid
    /\ UNCHANGED <<baseDir, processingDir, dFiles>>
    /\ UNCHANGED <<varsOld, notDirs>>

\* CreateDir(uniqueDirPath): os.MkdirAll
MakeUniqueDirCreate(k) ==
    /\ dPc[k] = "mkdir"
    /\ \/ /\ baseDir' = baseDir \cup {dUid[k]}
          /\ processingDir' = [processingDir EXCEPT ![k] = dUid[k]]
          /\ dPc' = [dPc EXCEPT ![k] = "work"]
       \/ /\ dPc' = [dPc EXCEPT ![k] = "failed"]
          /\ UNCHANGED <<baseDir, processingDir>>
    /\ UNCHANGED <<dTry, dUid, dFiles>>
    /\ UNCHANGED <<uuidsDrawn, varsOld, notDirs>>

\* the run downloads, preprocesses and extracts inside its processing directory
WriteInProcessingDir(k) ==
    /\ dPc[k] = "work"
    /\ processingDir[k] \in baseDir
    /\ <<processingDir[k], k>> \notin dFiles
    /\ dFiles' = dFiles \cup {<<processingDir[k], k>>}
    /\ UNCHANGED <<baseDir, dPc, dTry, dUid, processingDir>>
    /\ UNCHANGED <<uuidsDrawn, varsOld, notDirs>>

\* Run returns: if cleanUp && processingDir != "" { os.RemoveAll(processingDir) }
RemoveProcessingDir(k) ==
    /\ dPc[k] = "work"
    /\ \E cleanUp \in BOOLEAN :
         IF cleanUp
         THEN /\ baseDir' = baseDir \ {processingDir[k]}
              /\ dFiles' = {f \in dFiles : f[1] # processingDir[k]}
         ELSE UNCHANGED <<baseDir, dFiles>>
    /\ dPc' = [dPc EXCEPT ![k] = "done"]
    /\ UNCHANGED <<dTry, dUid, processingDir>>
    /\ UNCHANGED <<uuidsDrawn, varsOld, notDirs>>

DirsNext ==
    \E k \in Runs :
        \/ MakeUniqueDirStat(k)
        \/ MakeUniqueDirCreate(k)
        \/ WriteInProcessingDir(k)
        \/ RemoveProcessingDir(k)

(***************************************************************************)
(* Strings and paths.  A string is the sequence of its characters.         *)
(***************************************************************************)
\* strings.HasPrefix(s, prefix)
HasPrefix(s, prefix) == Len(s) >= Len(prefix) /\ SubSeq(s, 1, Len(prefix)) = prefix

\* strings.Split(s, sep) for a separator of one character
RECURSIVE Split(_, _)
Split(s, sep) ==
    IF \A i \in 1..Len(s) : s[i] # sep THEN <<s>>
    ELSE LET i == CHOOSE n \in 1..Len(s) : s[n] = sep /\ \A m \in 1..(n - 1) : s[m] # sep
         IN <<SubSeq(s, 1, i - 1)>> \o Split(SubSeq(s, i + 1, Len(s)), sep)

\* strings.Join(parts, sep)
RECURSIVE JoinStrings(_, _)
JoinStrings(parts, sep) ==
    IF parts = <<>> THEN <<>>
    ELSE IF Len(parts) = 1 THEN parts[1]
    ELSE parts[1] \o <<sep>> \o JoinStrings(Tail(parts), sep)

\* the elements of a path that filepath.Clean keeps, given those kept so far
RECURSIVE CleanElements(_, _, _)
CleanElements(elems, kept, rooted) ==
    IF elems = <<>> THEN kept
    ELSE LET e == Head(elems)
             next ==
                IF e = <<>> \/ e = <<".">> THEN kept
                ELSE IF e = <<".", ".">>
                THEN IF kept # <<>> /\ kept[Len(kept)] # <<".", ".">>
                     THEN SubSeq(kept, 1, Len(kept) - 1)
                     ELSE IF rooted THEN kept ELSE Append(kept, e)
                ELSE Append(kept, e)
         IN CleanElements(Tail(elems), next, rooted)

\* filepath.Clean(path), with "/" as the separator
Clean(path) ==
    IF path = <<>> THEN <<".">>
    ELSE LET rooted == path[1] = "/"
             kept == CleanElements(Split(path, "/"), <<>>, rooted)
             out == (IF rooted THEN <<"/">> ELSE <<>>) \o JoinStrings(kept, "/")
         IN IF out = <<>> THEN <<".">> ELSE out

\* filepath.Join(a, b): the non-empty elements joined with "/", then Clean
Join(a, b) ==
    IF a = <<>> /\ b = <<>> THEN <<>>
    ELSE IF b = <<>> THEN Clean(a)
    ELSE IF a = <<>> THEN Clean(b)
    ELSE Clean(a \o <<"/">> \o b)

\* filepath.Dir(path) of a cleaned path
Dir(path) ==
    LET elems == Split(path, "/")
    IN IF Len(elems) <= 1 THEN <<".">>
       ELSE LET d == JoinStrings(SubSeq(elems, 1, Len(elems) - 1), "/")
            IN IF d = <<>> THEN <<"/">> ELSE d

\* a path of the file tree and the directories above it
Ancestors(path) ==
    LET elems == Split(path, "/")
    IN { IF n = 1 /\ elems[1] = <<>> THEN <<"/">> ELSE JoinStrings(SubSeq(elems, 1, n), "/") :
            n \in 1..Len(elems) }

(***************************************************************************)
(* utils.ExtractZip: the entries of the archive are extracted in order     *)
(* into dest; each entry's path is checked by validatePath first.          *)
(***************************************************************************)
MaxEntries == 2

\* the Name of an entry; archive/zip takes an entry for a directory exactly
\* when its name ends with "/"
ZipNames ==
    { <<"a">>,
      <<"d", "/">>,
      <<"d", "/", "a">>,
      <<".", ".", "/", "x">>,
      <<".", ".", "/">>,
      <<"d", "/", ".", ".", "/", ".", ".", "/", "x">>,
      <<".", ".", "/", "a", "i", "p", "-", "e", "v", "i", "l", "/", "x">>,
      <<"d", "/", ".", ".", "/", "b">>,
      <<"/", "e", "t", "c", "/", "x">>,
      <<".">>,
      <<".", ".", "/", "a", "i", "p", "/", "x">>,
      <<>> }

ZipDest == <<"/", "p", "/", "a", "i", "p">>

validatePath_NoSeparator(target, destDir) ==
    HasPrefix(Clean(target), Clean(destDir))

\* validatePath(target, destDir) returns nil
validatePath(target, destDir) ==
    HasPrefix(Clean(target), Clean(destDir) \o <<"/">>)

ZipInit ==
    /\ zArchive \in UNION { [1..n -> ZipNames] : n \in 0..MaxEntries }
    /\ zI = 1
    /\ zCreated = {}
    /\ zResult = "start"

ZipOff ==
    /\ zArchive = <<>>
    /\ zI = 1
    /\ zCreated = {}
    /\ zResult = "off"

\* zip.OpenReader(src), then CreateDir(dest)
ExtractZipOpen ==
    /\ zResult = "start"
    /\ \/ /\ zResult' = "running"
          /\ zCreated' = Ancestors(ZipDest)
       \/ /\ zResult' = "error"
          /\ UNCHANGED zCreated
    /\ UNCHANGED <<zArchive, zI>>
    /\ UNCHANGED <<varsOld, notZip>>

\* one round of the loop over reader.File
ExtractZipEntry ==
    /\ zResult = "running"
    /\ zI <= Len(zArchive)
    /\ LET name == zArchive[zI]
           cleanDest == Clean(ZipDest) \o <<"/">>
           filePath == Join(cleanDest, name)
           isDir == name # <<>> /\ name[Len(name)] = "/"
       IN IF ~validatePath(filePath, cleanDest)
          THEN /\ zResult' = "error"
               /\ UNCHANGED <<zI, zCreated>>
          ELSE \/ /\ zCreated' = zCreated \cup Ancestors(filePath)
                  /\ zI' = zI + 1
                  /\ UNCHANGED zResult
               \/ \* CreateDir fails
                  /\ zResult' = "error"
                  /\ UNCHANGED <<zI, zCreated>>
               \/ \* os.Create fails, or file.Open or io.Copy after it
                  /\ ~isDir
                  /\ \E made \in {Dir(filePath), filePath} :
                        zCreated' = zCreated \cup Ancestors(made)
                  /\ zResult' = "error"
                  /\ UNCHANGED zI
    /\ UNCHANGED zArchive
    /\ UNCHANGED <<varsOld, notZip>>

\* case <-ctx.Done(): return "", ctx.Err()
ExtractZipCtxDone ==
    /\ zResult = "running"
    /\ zI <= Len(zArchive)
    /\ zResult' = "cancelled"
    /\ UNCHANGED <<zArchive, zI, zCreated>>
    /\ UNCHANGED <<varsOld, notZip>>

\* the loop is over: return extractedPath, nil
ExtractZipReturn ==
    /\ zResult = "running"
    /\ zI > Len(zArchive)
    /\ zResult' = "ok"
    /\ UNCHANGED <<zArchive, zI, zCreated>>
    /\ UNCHANGED <<varsOld, notZip>>

ZipNext ==
    \/ ExtractZipOpen
    \/ ExtractZipEntry
    \/ ExtractZipCtxDone
    \/ ExtractZipReturn

(***************************************************************************)
(* atom.Client.MigratePackage and utils.RsyncFile: the configured rsync    *)
(* command is split at the spaces, every piece is checked by               *)
(* validateRsyncArg, and rsync is executed with the pieces, the source and *)
(* the destination.                                                        *)
(***************************************************************************)
MaxTokens == 3

\* what a configured command is written from
RsyncTokens ==
    { <<"-", "a">>,
      <<"-", "-", "p", "r", "o", "g", "r", "e", "s", "s">>,
      <<"-", "e">>,
      <<"\"", "s", "s", "h", " ", "-", "p", " ", "2", "2", "\"">>,
      <<"-", "-", "d", "e", "l", "e", "t", "e">>,
      <<"e", "x", "t", "r", "a">>,
      <<".", ".", "/", "u", "p">> }

\* the keys of the map allowedRsyncFlags
allowedRsyncFlags ==
    { <<"-", "a">>,
      <<"-", "-", "a", "r", "c", "h", "i", "v", "e">>,
      <<"-", "v">>,
      <<"-", "-", "v", "e", "r", "b", "o", "s", "e">>,
      <<"-", "z">>,
      <<"-", "-", "c", "o", "m", "p", "r", "e", "s", "s">>,
      <<"-", "-", "p", "r", "o", "g", "r", "e", "s", "s">>,
      <<"-", "e">> }

Digits == {"0", "1", "2", "3", "4", "5", "6", "7", "8", "9"}

\* fmt.Sscanf(part, "%d", new(int)) returns no error: part starts with an
\* integer, whatever follows it
SscanfInt(part) ==
    /\ part # <<>>
    /\ \/ part[1] \in Digits
       \/ part[1] \in {"+", "-"} /\ Len(part) >= 2 /\ part[2] \in Digits

\* validateRsyncArg(arg) returns nil
validateRsyncArg(arg) ==
    IF arg \in allowedRsyncFlags THEN TRUE
    ELSE IF HasPrefix(arg, <<"s", "s", "h", " ">>)
    THEN LET parts == Split(arg, " ")
         IN \A i \in 1..Len(parts) :
               \/ parts[i] = <<"s", "s", "h">>
               \/ parts[i] = <<"-", "p">>
               \/ SscanfInt(parts[i])
    ELSE IF ~HasPrefix(arg, <<"-">>)
    THEN Clean(arg) = arg
    ELSE FALSE

RsyncSrc == <<"/", "d", "i", "p", "s", "/", "u", "1">>
RsyncTarget == <<"h", ":", "/", "d">>

RsyncInit ==
    /\ rsTokens \in UNION { [1..n -> RsyncTokens] : n \in 0..MaxTokens }
    /\ rsCommand = JoinStrings(rsTokens, " ")
    /\ rsArgs = <<>>
    /\ rsI = 1
    /\ rsCmdArgs = <<>>
    /\ rsResult = "start"

RsyncOff ==
    /\ rsTokens = <<>>
    /\ rsCommand = <<>>
    /\ rsArgs = <<>>
    /\ rsI = 1
    /\ rsCmdArgs = <<>>
    /\ rsResult = "off"

\* MigratePackage calls RsyncFile(ctx, dipPath, c.config.RsyncTarget,
\* strings.Split(c.config.RsyncCommand, " ")); RsyncFile checks src and dest
MigratePackageCall ==
    /\ rsResult = "start"
    /\ rsArgs' = Split(rsCommand, " ")
    /\ rsResult' = IF RsyncSrc = <<>> \/ RsyncTarget = <<>> THEN "error" ELSE "validating"
    /\ UNCHANGED <<rsTokens, rsCommand, rsI, rsCmdArgs>>
    /\ UNCHANGED <<varsOld, notRsync>>

\* one round of the loop over extraArgs
RsyncValidateArg ==
    /\ rsResult = "validating"
    /\ rsI <= Len(rsArgs)
    /\ IF validateRsyncArg(rsArgs[rsI])
       THEN /\ rsI' = rsI + 1
            /\ UNCHANGED rsResult
       ELSE /\ rsResult' = "error"
            /\ UNCHANGED rsI
    /\ UNCHANGED <<rsTokens, rsCommand, rsArgs, rsCmdArgs>>
    /\ UNCHANGED <<varsOld, notRsync>>

\* exec.CommandContext(ctx, "rsync", cmdArgs...).CombinedOutput()
RsyncExecute ==
    /\ rsResult = "validating"
    /\ rsI > Len(rsArgs)
    /\ rsCmdArgs' = rsArgs \o <<Clean(RsyncSrc), Clean(RsyncTarget)>>
    /\ \E ok \in BOOLEAN : rsResult' = IF ok THEN "ok" ELSE "error"
    /\ UNCHANGED <<rsTokens, rsCommand, rsArgs, rsI>>
    /\ UNCHANGED <<varsOld, notRsync>>

RsyncNext ==
    \/ MigratePackageCall
    \/ RsyncValidateArg
    \/ RsyncExecute

(***************************************************************************)
(* The command line: main calls RootCmd.Execute(), whose Run function      *)
(* loads the configuration, creates the service and, without --serve,      *)
(* calls svc.RunArgs on the paths given.                                   *)
(***************************************************************************)
MaxCliPaths == 3

CliInputs ==
    { in \in [ flagsOk : BOOLEAN,         \* cobra parses the command line
               configOk : BOOLEAN,        \* config.Load and config.GetAtomConfig succeed
               serviceOk : BOOLEAN,       \* internal.NewService succeeds
               userClientOk : BOOLEAN,    \* NewUserClient succeeds in Service.Run
               nPaths : 1..MaxCliPaths,
               failed : SUBSET (1..MaxCliPaths) ] :   \* the paths whose pipeline fails
        in.failed \subseteq 1..in.nPaths }

NoCliInput == [flagsOk |-> FALSE, configOk |-> FALSE, serviceOk |-> FALSE,
               userClientOk |-> FALSE, nPaths |-> 1, failed |-> {}]

CliInit ==
    /\ cliIn \in CliInputs
    /\ cliPc = "main"
    /\ cliErr = "none"
    /\ exitCode = -1

CliOff ==
    /\ cliIn = NoCliInput
    /\ cliPc = "off"
    /\ cliErr = "none"
    /\ exitCode = -1

\* cmd.RootCmd.Execute() parses the flags; on an error main calls os.Exit(1)
CliExecute ==
    /\ cliPc = "main"
    /\ IF cliIn.flagsOk
       THEN cliPc' = "run" /\ UNCHANGED exitCode
       ELSE cliPc' = "exited" /\ exitCode' = 1
    /\ UNCHANGED <<cliIn, cliErr>>
    /\ UNCHANGED <<varsOld, notCli>>

\* Run: config.Load, config.GetAtomConfig, internal.NewService; each failure
\* ends in logger.Fatal
CliSetUp ==
    /\ cliPc = "run"
    /\ IF cliIn.configOk /\ cliIn.serviceOk
       THEN cliPc' = "runArgs" /\ UNCHANGED exitCode
       ELSE cliPc' = "exited" /\ exitCode' = 1
    /\ UNCHANGED <<cliIn, cliErr>>
    /\ UNCHANGED <<varsOld, notCli>>

\* if err := svc.RunArgs(ctx, &svcArgs); err != nil { logger.Debug(...) }
CliRunArgs ==
    /\ cliPc = "runArgs"
    /\ cliErr' = IF ~cliIn.userClientOk \/ cliIn.failed # {} THEN "error" ELSE "nil"
    /\ cliPc' = "returned"
    /\ UNCHANGED <<cliIn, exitCode>>
    /\ UNCHANGED <<varsOld, notCli>>

\* Run returns, Execute returns nil and main returns
CliReturn ==
    /\ cliPc = "returned"
    /\ exitCode' = 0
    /\ cliPc' = "exited"
    /\ UNCHANGED <<cliIn, cliErr>>
    /\ UNCHANGED <<varsOld, notCli>>

CliNext ==
    \/ CliExecute
    \/ CliSetUp
    \/ CliRunArgs
    \/ CliReturn

(***************************************************************************)
(* A tag updater: createTagUpdater runs Client.UpdateTag under             *)
(* utils.Retry(3, 2s, ..., IsTransientError), and UpdateTag runs           *)
(* sdkUpdateUserMeta under utils.WithRetry.                                *)
(***************************************************************************)
TagRetryAttempts == 3

\* what one invocation of sdkUpdateUserMeta may return
TagScriptErrs ==
    { NoErr,
      MkErr(FALSE, {"503"}, "none", "none"),         \* transient
      MkErr(FALSE, {}, "none", "none") }             \* a plain error

TagInit ==
    /\ tScript \in [1..(TagRetryAttempts * DefaultRetryAttempts) -> TagScriptErrs]
    /\ tOuter = 0
    /\ tInner = 0
    /\ tErr = NoErr
    /\ tCalls = 0
    /\ tPc = "inner"

TagOff ==
    /\ tScript = <<>>
    /\ tOuter = 0
    /\ tInner = 0
    /\ tErr = NoErr
    /\ tCalls = 0
    /\ tPc = "off"

\* Client.UpdateTag: one pass of WithRetry's loop, sdkUpdateUserMeta included
UpdateTagIteration ==
    /\ tPc = "inner"
    /\ LET e == tScript[tCalls + 1]
           d == RetryDecision(e, tInner, DefaultRetryAttempts)
       IN /\ tCalls' = tCalls + 1
          /\ tErr' = e
          /\ IF d = "again"
             THEN tInner' = tInner + 1 /\ tPc' = "inner"
             ELSE tInner' = tInner /\ tPc' = "outer"
    /\ UNCHANGED <<tScript, tOuter>>
    /\ UNCHANGED <<varsOld, notTag>>

\* createTagUpdater: UpdateTag returned tErr to the Retry of the updater
TagUpdaterIteration ==
    /\ tPc = "outer"
    /\ IF RetryDecision(tErr, tOuter, TagRetryAttempts) = "again"
       THEN /\ tOuter' = tOuter + 1
            /\ tInner' = 0
            /\ tPc' = "inner"
       ELSE /\ tPc' = "done"
            /\ UNCHANGED <<tOuter, tInner>>
    /\ UNCHANGED <<tScript, tErr, tCalls>>
    /\ UNCHANGED <<varsOld, notTag>>

TagNext ==
    \/ UpdateTagIteration
    \/ TagUpdaterIteration

(***************************************************************************)
(* Client.UnresolveCellsPath and Client.ResolveCellsPath.  A workspace has *)
(* a slug and one root node: either a DATASOURCE root with a path, or a    *)
(* root with a template path.  A template path is kept as the datasource   *)
(* it names and whether "/" + User.Name follows; `parses` tells whether    *)
(* parseWorkspaceResolution finds `Path = ...;` in the resolution.         *)
(***************************************************************************)
MaxWorkspaces == 2

\* strings.Replace(s, old, new, 1)
Replace(s, old, new) ==
    LET at == { i \in 1..(Len(s) - Len(old) + 1) : SubSeq(s, i, i + Len(old) - 1) = old }
    IN IF at = {} THEN s
       ELSE LET i == CHOOSE k \in at : \A m \in at : k <= m
            IN SubSeq(s, 1, i - 1) \o new \o SubSeq(s, i + Len(old), Len(s))

\* strings.TrimSuffix(s, "/")
TrimSlash(s) == IF s # <<>> /\ s[Len(s)] = "/" THEN SubSeq(s, 1, Len(s) - 1) ELSE s

DatasourceRoot(path) == [datasource |-> TRUE, path |-> path, ds |-> <<>>, user |-> FALSE, parses |-> TRUE]
TemplateRoot(ds, user, parses) == [datasource |-> FALSE, path |-> <<>>, ds |-> ds, user |-> user, parses |-> parses]

WorkspacePool ==
    { [slug |-> <<"p", "f">>, root |-> TemplateRoot(<<"p">>, TRUE, TRUE)],    \* personal files
      [slug |-> <<"m", "f">>, root |-> TemplateRoot(<<"p">>, FALSE, TRUE)],   \* the whole datasource
      [slug |-> <<"c", "f">>, root |-> DatasourceRoot(<<"d", "/">>)],         \* common files
      [slug |-> <<"d">>, root |-> DatasourceRoot(<<"d">>)],                   \* slug = datasource
      [slug |-> <<"x", "f">>, root |-> TemplateRoot(<<"p">>, TRUE, FALSE)] }  \* resolution unreadable

Logins == { <<"b">>, <<"b", "o">> }

\* node paths: absolute, the datasource first
NodePaths ==
    { <<"p", "/", "b", "/", "x">>,
      <<"p", "/", "b", "o", "/", "x">>,
      <<"p", "/", "b">>,
      <<"d", "/", "x">>,
      <<"d">> }

PathOk(path) == [ok |-> TRUE, path |-> path]
PathErr == [ok |-> FALSE, path |-> <<>>]

\* resolveResolution(resolutionPath, login, group) for a template root
resolveResolution(root, login) ==
    IF root.user THEN root.ds \o <<"/">> \o login ELSE root.ds

\* strings.Contains(resolutionPath, "DataSources." + datasource)
ReferencesDatasource(root, datasource) == HasPrefix(root.ds, datasource)

\* the loops of UnresolveCellsPath over the workspaces ws, in order
RECURSIVE UnresolveFrom(_, _, _)
UnresolveFrom(ws, login, cellsPath) ==
    IF ws = <<>> THEN PathOk(cellsPath)
    ELSE LET w == Head(ws)
             datasource == Split(cellsPath, "/")[1]
         IN IF w.root.datasource THEN UnresolveFrom(Tail(ws), login, cellsPath)
            ELSE IF ~w.root.parses THEN PathErr
            ELSE IF /\ ReferencesDatasource(w.root, datasource)
                    /\ HasPrefix(cellsPath, resolveResolution(w.root, login))
            THEN PathOk(Replace(cellsPath, resolveResolution(w.root, login), w.slug))
            ELSE UnresolveFrom(Tail(ws), login, cellsPath)

UnresolveCellsPath(ws, login, cellsPath) == UnresolveFrom(ws, login, cellsPath)

\* ResolveCellsPath; exists: GetNodeStats finds the path computed from the
\* datasource
ResolveCellsPath(ws, login, cellsPath, exists) ==
    LET workspaceRoot == Split(cellsPath, "/")[1]
        found == { i \in 1..Len(ws) : ws[i].slug = workspaceRoot }
    IN IF found = {} THEN PathErr
       ELSE LET w == ws[CHOOSE i \in found : \A j \in found : i <= j]
            IN IF w.root.datasource
               THEN IF TrimSlash(w.root.path) = <<>> \/ ~exists THEN PathErr
                    ELSE PathOk(Replace(cellsPath, workspaceRoot, TrimSlash(w.root.path)))
               ELSE IF ~w.root.parses THEN PathErr
               ELSE PathOk(Replace(cellsPath, workspaceRoot, resolveResolution(w.root, login)))

PathInit ==
    /\ pLogin \in Logins
    /\ pWorkspaces \in { ws \in UNION { [1..n -> WorkspacePool] : n \in 0..MaxWorkspaces } :
                            \A i \in 1..Len(ws) : \A j \in 1..Len(ws) :
                                i # j => ws[i].slug # ws[j].slug }
    /\ pNodePath \in NodePaths
    /\ pUnresolved = PathErr
    /\ pResolved = PathErr
    /\ pPc = "unresolve"

PathOff ==
    /\ pLogin = <<>>
    /\ pWorkspaces = <<>>
    /\ pNodePath = <<>>
    /\ pUnresolved = PathErr
    /\ pResolved = PathErr
    /\ pPc = "off"

\* Run, pathResolved: cellsPackagePath, err = UnresolveCellsPath(...)
RunUnresolves ==
    /\ pPc = "unresolve"
    /\ pUnresolved' = UnresolveCellsPath(pWorkspaces, pLogin, pNodePath)
    /\ pPc' = IF pUnresolved'.ok THEN "resolve" ELSE "done"
    /\ UNCHANGED <<pLogin, pWorkspaces, pNodePath, pResolved>>
    /\ UNCHANGED <<varsOld, notPath>>

\* gatherNodeEnvironment: ResolveCellsPath(userClient, cellsPackagePath); the
\* node of the request exists, other paths may or may not
RunResolves ==
    /\ pPc = "resolve"
    /\ \E exists \in BOOLEAN :
         /\ ResolveCellsPath(pWorkspaces, pLogin, pUnresolved.path, TRUE) = PathOk(pNodePath)
               => exists
         /\ pResolved' = ResolveCellsPath(pWorkspaces, pLogin, pUnresolved.path, exists)
    /\ pPc' = "done"
    /\ UNCHANGED <<pLogin, pWorkspaces, pNodePath, pUnresolved>>
    /\ UNCHANGED <<varsOld, notPath>>

PathNext ==
    \/ RunUnresolves
    \/ RunResolves

RestOff == NsOff /\ DirsOff /\ ZipOff /\ RsyncOff /\ CliOff /\ TagOff /\ PathOff

(***************************************************************************)
(* The specifications.                                                     *)
(***************************************************************************)
Init == RetryOff /\ ApsOff /\ ServerOff /\ RunInit /\ SvcOff /\ RestOff
Next == RunNext
Spec == Init /\ [][Next]_vars

InitRetry == RetryInit /\ ApsOff /\ ServerOff /\ RunOff /\ SvcOff /\ RestOff
SpecRetry == InitRetry /\ [][RetryNext]_vars

InitAps == RetryOff /\ ApsInit /\ ServerOff /\ RunOff /\ SvcOff /\ RestOff
SpecAps == InitAps /\ [][ApsNext]_vars

\* a goroutine blocked in the first select of SubmitPackage runs once one of
\* the select's cases is ready and stays ready
SpecApsFair ==
    /\ SpecAps
    /\ \A p \in Pipelines : WF_vars(AcquireSlot(p) \/ AcquireCtxDone(p))

InitServer == RetryOff /\ ApsOff /\ ServerInit /\ RunOff /\ SvcOff /\ RestOff
SpecServer == InitServer /\ [][ServerNext]_vars

InitService == RetryOff /\ ApsOff /\ ServerOff /\ RunOff /\ SvcInit /\ RestOff
SpecService == InitService /\ [][SvcNext]_vars

\* the goroutine that called Service.Run goes on whenever it can
SpecServiceFair ==
    /\ SpecService
    /\ WF_vars(LaunchDone)
    /\ WF_vars(ServiceReturn)

OldOff == RetryOff /\ ApsOff /\ ServerOff /\ RunOff /\ SvcOff

InitNs == OldOff /\ NsInit /\ DirsOff /\ ZipOff /\ RsyncOff /\ CliOff /\ TagOff /\ PathOff
SpecNs == InitNs /\ [][NsNext]_vars

InitDirs == OldOff /\ NsOff /\ DirsInit /\ ZipOff /\ RsyncOff /\ CliOff /\ TagOff /\ PathOff
SpecDirs == InitDirs /\ [][DirsNext]_vars

InitZip == OldOff /\ NsOff /\ DirsOff /\ ZipInit /\ RsyncOff /\ CliOff /\ TagOff /\ PathOff
SpecZip == InitZip /\ [][ZipNext]_vars

InitRsync == OldOff /\ NsOff /\ DirsOff /\ ZipOff /\ RsyncInit /\ CliOff /\ TagOff /\ PathOff
SpecRsync == InitRsync /\ [][RsyncNext]_vars

InitCli == OldOff /\ NsOff /\ DirsOff /\ ZipOff /\ RsyncOff /\ CliInit /\ TagOff /\ PathOff
SpecCli == InitCli /\ [][CliNext]_vars

InitTag == OldOff /\ NsOff /\ DirsOff /\ ZipOff /\ RsyncOff /\ CliOff /\ TagInit /\ PathOff
SpecTag == InitTag /\ [][TagNext]_vars

InitPath == OldOff /\ NsOff /\ DirsOff /\ ZipOff /\ RsyncOff /\ CliOff /\ TagOff /\ PathInit
SpecPath == InitPath /\ [][PathNext]_vars

(***************************************************************************)
(* The properties.                                                         *)
(***************************************************************************)

\* C1: with admission capacity 1 and several pipelines calling SubmitPackage
\* on the shared client, at most one call is past the admission semaphore
\* (so at most one Submit RPC is outstanding), and every call that is not
\* past it waits at the semaphore and has issued no RPC.
C1_Admission ==
    /\ Cardinality({p \in Pipelines : aPc[p] \in {"submitting", "pollwait"}}) <= 1
    /\ Cardinality({p \in Pipelines : aPc[p] = "submitting"}) <= 1
    /\ \A p \in Pipelines :
         aPc[p] \notin {"submitting", "pollwait", "sleep", "done"} =>
            aPc[p] = "acquire" /\ ~aIssued[p]

C1_Witness ==
    \E p, q \in Pipelines :
        /\ p # q
        /\ aPc[p] = "submitting"
        /\ aPc[q] = "acquire" /\ aCtx[q] = "live" /\ ~aIssued[q]

\* C2: of two overlapping /preserve requests with the same fingerprint, one
\* is accepted and runs the pipeline; the one that arrives while the other is
\* in flight is answered 409 and never runs the pipeline.
C2_Dedup ==
    /\ [](\A r1, r2 \in Requests :
            (r1 # r2 /\ hPc[r1] = "running" /\ hPc[r2] = "running") =>
                RequestIDOf(hReq[r1]) # RequestIDOf(hReq[r2]))
    /\ [](\A r \in Requests : hStatus[r] = 409 => (hPc[r] = "done" /\ ~hRan[r]))
    /\ [][\A r, o \in Requests :
            ( /\ r # o
              /\ hPc[o] = "running"
              /\ hPc[r] \in {"idle", "done"}
              /\ <<hPc'[r], hReq'[r], hStatus'[r]>> # <<hPc[r], hReq[r], hStatus[r]>>
              /\ hReq'[r].username # <<>>
              /\ Len(EffectivePaths(hReq'[r])) > 0
              /\ RequestIDOf(hReq'[r]) = RequestIDOf(hReq[o]) )
            => ( /\ hStatus'[r] = 409
                 /\ hPc'[r] = "done"
                 /\ ~hRan'[r]
                 /\ hPc'[o] = "running" /\ hRan'[o] )]_vars

C2_Witness ==
    \E r, o \in Requests :
        /\ r # o
        /\ hPc[o] = "running" /\ hRan[o]
        /\ hPc[r] = "done" /\ hStatus[r] = 409 /\ ~hRan[r]
        /\ hReq[r] = hReq[o]

\* C3: in every successful run the preservation tag is written with Starting,
\* Downloading, Preprocessing, Packaging, Extracting, Uploading and Preserved,
\* each once and in that order (Compressing, Waiting and Deposited may come
\* in between).
C3_TagOrder ==
    (runPc = "done" /\ retErr.nil) =>
        SelectSeq(presTag, LAMBDA v : v \notin {preservationTagCompressing,
                                                preservationTagWaiting,
                                                dipTagCompleted})
          = << <<"Starting...">>, <<"Downloading...">>, <<"Preprocessing...">>,
               <<"Packaging...">>, <<"Extracting...">>, <<"Uploading...">>,
               <<"Preserved">> >>

C3_Witness ==
    /\ runPc = "done" /\ retErr.nil
    /\ Len(presTag) = 10
    /\ presTag[1] = <<"Starting...">> /\ presTag[10] = <<"Preserved">>

C6_FailedRunLeavesNothing ==
    (runPc = "done" /\ ~retErr.nil /\ runIn.cleanUp) =>
        ("proc" \notin fs /\ "aip" \notin fs /\ "dip" \notin fs)

C8_CtxDoneNeverRetried ==
    [][\A p \in Pipelines : aI'[p] > aI[p] => aErr'[p].cause = "none"]_vars

\* C9: for an operation that fails with a transient error N < 3 times and
\* then succeeds, WithRetry returns nil after exactly N+1 invocations; for an
\* operation whose first failure is not transient, WithRetry returns that
\* error after exactly 1 invocation.
C9_RetryAttempts ==
    rPc = "done" =>
        /\ \A n \in 0..2 :
             ( /\ \A k \in 1..n : rScript[k] # NoErr /\ IsTransientError(rScript[k])
               /\ rScript[n + 1] = NoErr )
             => (rErr = NoErr /\ rCalls = n + 1)
        /\ (rScript[1] # NoErr /\ ~IsTransientError(rScript[1]))
             => (rErr = rScript[1] /\ rCalls = 1)

C9_Witness ==
    /\ rPc = "done"
    /\ rScript[1] = MkErr(FALSE, {"503"}, "none", "none")
    /\ rScript[2] = GrpcErr("Unavailable", {})
    /\ rScript[3] = NoErr
    /\ rErr = NoErr /\ rCalls = 3

C9_WitnessNonTransient ==
    /\ rPc = "done"
    /\ rScript[1] = GrpcErr("NotFound", {})
    /\ rErr = rScript[1] /\ rCalls = 1

\* C10: a poll of SubmitPackage that reads PROCESSING leaves the call polling;
\* the call returns the package id without error exactly when a poll reads
\* COMPLETE, whether or not failed jobs are listed; a poll that reads FAILED,
\* REJECTED, UNSPECIFIED or an unknown status makes the call return an error.
C10_PollOutcome ==
    [][\A p \in Pipelines :
         (aPc[p] = "pollwait" /\ (aPc'[p] # "pollwait" \/ aStatus'[p] # aStatus[p])) =>
            /\ aStatus'[p][1] = "PROCESSING" =>
                 (aPc'[p] = "pollwait" /\ aErr'[p] = aErr[p] /\ aI'[p] = aI[p])
            /\ (aPc'[p] = "done" /\ aErr'[p] = NoErr /\ aAipUuid'[p] = "id")
                 <=> aStatus'[p][1] = "COMPLETE"
            /\ aStatus'[p][1] \in {"FAILED", "REJECTED", "UNSPECIFIED", "UNKNOWN"} =>
                 (aPc'[p] # "pollwait" /\ aErr'[p] # NoErr /\ aAipUuid'[p] = "")]_vars

C10_Witness ==
    \E p \in Pipelines :
        /\ aPc[p] = "done"
        /\ aStatus[p] = <<"COMPLETE", TRUE>>
        /\ aErr[p] = NoErr /\ aAipUuid[p] = "id"

C10_WitnessProcessing ==
    \E p \in Pipelines : aPc[p] = "pollwait" /\ aStatus[p] = <<"PROCESSING", FALSE>>

C12_BlockedCallCancelled ==
    [][\A p \in Pipelines :
         ( /\ aPc[p] = "acquire"
           /\ aCtx[p] # "live"
           /\ processingTokens = MaxActiveProcessing
           /\ aPc'[p] # "acquire" )
         => ( /\ aPc'[p] \in {"sleep", "done"}
              /\ aErr'[p] = CtxErr(aCtx[p])
              /\ aErr'[p].cause \in {"Canceled", "DeadlineExceeded"}
              /\ ~aIssued'[p]
              /\ aAipUuid'[p] = ""
              /\ processingTokens' = processingTokens )]_vars

C12_Witness ==
    \E p, q \in Pipelines :
        /\ p # q
        /\ aPc[q] = "pollwait" /\ processingTokens = 1
        /\ aPc[p] = "done" /\ aI[p] = 0 /\ ~aIssued[p]
        /\ aErr[p] = CtxErr("Canceled")

\* C13: a pipeline that waits at the semaphore is never blocked while a slot is
\* free (its send on the channel is ready), and whenever a slot is free while
\* a pipeline waits, the slot is taken or that pipeline stops waiting.
C13_FreeSlotTaken ==
    /\ [](\A p \in Pipelines :
            (aPc[p] = "acquire" /\ processingTokens < MaxActiveProcessing)
               => ENABLED AcquireSlot(p))
    /\ \A p \in Pipelines :
          (aPc[p] = "acquire" /\ processingTokens < MaxActiveProcessing)
             ~> (aPc[p] # "acquire" \/ processingTokens = MaxActiveProcessing)

C13_Witness ==
    \E p, q \in Pipelines :
        /\ p # q
        /\ aPc[q] = "done" /\ aIssued[q] /\ aErr[q] # NoErr
        /\ aPc[p] = "pollwait" /\ aCtx[p] = "live" /\ aI[p] = 0

\* C14: every SubmitPackage call takes one slot when it passes the select and
\* gives it back when it returns, whatever the exit: the number of held slots
\* equals the number of calls between the select and their return, is at most
\* the capacity, and is zero when no call is past the select.
C14_SlotAccounting ==
    /\ [](processingTokens
            = Cardinality({p \in Pipelines : aPc[p] \in {"submitting", "pollwait"}}))
    /\ [](processingTokens >= 0 /\ processingTokens <= MaxActiveProcessing)
    /\ []((\A p \in Pipelines : aPc[p] \in {"acquire", "sleep", "done"})
             => processingTokens = 0)
    /\ [][\A p \in Pipelines :
            /\ (aPc[p] = "acquire" /\ aPc'[p] = "submitting")
                  => processingTokens' = processingTokens + 1
            /\ (aPc[p] \in {"submitting", "pollwait"} /\ aPc'[p] \in {"sleep", "done"})
                  => processingTokens' = processingTokens - 1
            /\ (aPc[p] = "acquire" /\ aPc'[p] \in {"sleep", "done"})
                  => processingTokens' = processingTokens]_vars

C14_Witness ==
    \E p, q \in Pipelines :
        /\ p # q
        /\ aPc[p] = "done" /\ aIssued[p] /\ aErr[p] = CtxErr("Canceled")
        /\ aPc[q] = "done" /\ aIssued[q] /\ aErr[q] = GrpcErr("InvalidArgument", {})
        /\ processingTokens = 0

\* C15: the in-flight map holds exactly the ids of the requests that were
\* accepted and have not completed; completing a request (200 or 500, a
\* recovered panic included) removes its id, and a valid request whose id is
\* that of no request in flight is accepted.
C15_InFlightLifecycle ==
    /\ [](activeRequests
            = {RequestIDOf(hReq[r]) : r \in {x \in Requests : hPc[x] = "running"}})
    /\ [][\A r \in Requests :
            /\ (hPc[r] = "running" /\ hPc'[r] = "done")
                  => ( /\ hStatus'[r] \in {200, 500}
                       /\ RequestIDOf(hReq[r]) \in activeRequests
                       /\ RequestIDOf(hReq[r]) \notin activeRequests' )
            /\ ( /\ hPc[r] \in {"idle", "done"}
                 /\ <<hPc'[r], hReq'[r], hStatus'[r]>> # <<hPc[r], hReq[r], hStatus[r]>>
                 /\ hReq'[r].username # <<>>
                 /\ Len(EffectivePaths(hReq'[r])) > 0
                 /\ \A o \in Requests :
                       hPc[o] = "running" => RequestIDOf(hReq[o]) # RequestIDOf(hReq'[r]) )
                  => ( /\ hPc'[r] = "running"
                       /\ hRan'[r]
                       /\ RequestIDOf(hReq'[r]) \in activeRequests' )]_vars

C15_Witness ==
    \E r, o \in Requests :
        /\ r # o
        /\ hPc[r] = "done" /\ hStatus[r] = 500 /\ hRan[r]
        /\ hPc[o] = "running" /\ hReq[o] = hReq[r]
        /\ activeRequests = {RequestIDOf(hReq[o])}

\* C16, as stated: two requests with the same user and the same paths and
\* nodes, in whatever order they are listed, have the same fingerprint, so
\* they are never in flight together.
C16_OrderInsensitiveFingerprint ==
    \A r1, r2 \in Requests :
        ( /\ r1 # r2
          /\ hPc[r1] = "running" /\ hPc[r2] = "running"
          /\ hReq[r1].username = hReq[r2].username
          /\ Len(hReq[r1].paths) = Len(hReq[r2].paths)
          /\ Len(hReq[r1].nodes) = Len(hReq[r2].nodes) )
        => \/ {hReq[r1].paths[i] : i \in 1..Len(hReq[r1].paths)}
                 # {hReq[r2].paths[i] : i \in 1..Len(hReq[r2].paths)}
           \/ {hReq[r1].nodes[i] : i \in 1..Len(hReq[r1].nodes)}
                 # {hReq[r2].nodes[i] : i \in 1..Len(hReq[r2].nodes)}

\* C17: a run goes through its stages one after the other, and it is about to
\* do the work of a stage (download, preprocess, APS submission, extraction,
\* compression, upload) only when the latest tag update is that stage's and
\* succeeded; a stage's tag update that fails makes the run return without
\* starting the work.
C17_TagBeforeWork ==
    /\ [](\A w \in { <<"download", preservationTagDownloading>>,
                     <<"preprocess", preservationTagPreprocessing>>,
                     <<"submit", preservationTagPackaging>>,
                     <<"extract", preservationTagExtracting>>,
                     <<"compress", preservationTagCompressing>>,
                     <<"upload", preservationTagUploading>> } :
            runPc = w[1] =>
               /\ tagCalls # <<>>
               /\ tagCalls[Len(tagCalls)] = <<"Preservation", w[2], TRUE>>
               /\ presTag[Len(presTag)] = w[2])
    /\ [][ /\ ( /\ runPc \notin {"return", "off"}
                /\ Len(tagCalls') = Len(tagCalls) + 1
                /\ ~tagCalls'[Len(tagCalls')][3] )
              => (runPc' = "return" /\ ~retErr'.nil)
           /\ LET order == <<"unresolve", "gather", "tagStarting", "dipTagInit", "mkdir",
                             "tagDownloading", "download", "tagPreprocessing", "preprocess",
                             "tagPackaging", "submit", "tagExtracting", "extract",
                             "tagCompressing", "compress", "dipTagStarting", "tagWaiting",
                             "atomClient", "dipTagMigrating", "migrate", "dipTagDepositing",
                             "deposit", "tagDeposited", "tagUploading", "upload", "verify",
                             "tagAtomSlug", "tagPreserved", "return", "done">>
                  Rank(pc) == CHOOSE i \in 1..Len(order) : order[i] = pc
              IN (runPc # "off" /\ runPc' # runPc) => Rank(runPc') > Rank(runPc) ]_vars

C17_Witness ==
    /\ runPc = "upload"
    /\ runIn.compressAip
    /\ tagCalls[Len(tagCalls)] = <<"Preservation", preservationTagUploading, TRUE>>

C17_WitnessTagFailed ==
    /\ runPc = "return"
    /\ tagCalls # <<>>
    /\ tagCalls[Len(tagCalls)] = <<"Preservation", preservationTagDownloading, FALSE>>

\* C18, as stated: when a run is aborted because its context is done, the
\* last value written to the preservation tag is "Failed: " and a reason.
C18_CancelledRunTaggedFailed ==
    (runPc = "done" /\ ctx = "Canceled" /\ ~retErr.nil /\ err.text = CtxText) =>
        /\ presTag # <<>>
        /\ Len(presTag[Len(presTag)]) >= 2
        /\ presTag[Len(presTag)][1] = "Failed"
        /\ presTag[Len(presTag)][2] = ": "

\* C19: for one request at most maxWorkers = 10 paths are inside the pipeline
\* at the same time; the other paths wait at the worker semaphore, and a path
\* waits only while its goroutine has not got a worker slot.
C19_WorkerLimit ==
    /\ sRunning <= 10
    /\ semaphore = sRunning
    /\ sWaiting + sRunning + sOk + sFailed = sLaunched
    /\ sLaunched <= sN

C19_Witness ==
    /\ sN = 11
    /\ sRunning = 10
    /\ sWaiting = 1

\* C20, as stated: Service.Run returns an error if and only if the pipeline
\* of at least one path failed, and it returns only after the pipelines of
\* all the paths have finished.
C20_ErrorIffPipelineFailed ==
    sPc = "returned" =>
        /\ (sResult # "nil") <=> (sFailed > 0)
        /\ sOk + sFailed = sN

\* C20, amended: when the user client cannot be created, Service.Run returns
\* an error without starting any pipeline.  Otherwise it returns only after
\* the pipelines of all the paths have finished, and it returns an error
\* exactly when at least one of them failed.
C20_ServiceResult ==
    sPc = "returned" =>
        IF sResult = "userClientError"
        THEN sLaunched = 0 /\ sOk = 0 /\ sFailed = 0
        ELSE /\ sResult \in {"nil", "error"}
             /\ (sResult = "error") <=> (sFailed > 0)
             /\ sOk + sFailed = sN
             /\ sWaiting = 0 /\ sRunning = 0 /\ semaphore = 0

C20_Witness ==
    /\ sPc = "returned"
    /\ sResult = "error"
    /\ sFailed = 1
    /\ sOk = 10

\* C21: the DIP stage is entered exactly by the runs whose slug (the parent
\* node's usermeta-atom-slug or, when that is empty or the quoted empty
\* string, the request's) is non-empty: a run is in the DIP stage only with a
\* slug, and it passes from packaging to the upload either through migrate
\* and deposit, with a slug, or directly, without one.  Without a slug the
\* only DIP tag update is the one that clears the tag, made exactly when the
\* tag was non-empty before.
C21_DipStageIffSlug ==
    /\ [](/\ runPc \in {"dipTagStarting", "tagWaiting", "atomClient", "dipTagMigrating",
                        "migrate", "dipTagDepositing", "deposit", "tagDeposited"}
             => ProducingDip
          /\ ~ProducingDip =>
               /\ \A i \in 1..Len(tagCalls) :
                    tagCalls[i][1] = "Dip" => (tagCalls[i][2] = <<>> /\ runIn.dipTagPrev # "")
               /\ runPc = "mkdir" =>
                    ((runIn.dipTagPrev # "")
                        <=> (\E i \in 1..Len(tagCalls) : tagCalls[i] = <<"Dip", <<>>, TRUE>>)))
    /\ [][ /\ (runPc' = "tagUploading" /\ runPc # "tagUploading") =>
                IF ProducingDip THEN runPc = "tagDeposited"
                ELSE runPc \in {"extract", "compress"}
           /\ (runPc' = "tagDeposited" /\ runPc # "tagDeposited") => runPc = "deposit"
           /\ (runPc' = "deposit" /\ runPc # "deposit") => runPc = "dipTagDepositing"
           /\ (runPc' = "dipTagDepositing" /\ runPc # "dipTagDepositing") => runPc = "migrate" ]_vars

C21_Witness ==
    /\ runPc = "tagUploading"
    /\ ~ProducingDip
    /\ runIn.dipTagPrev # ""
    /\ dipTag = << <<>> >>

C21_WitnessDip ==
    /\ runPc = "tagUploading"
    /\ ProducingDip
    /\ runIn.nodeSlug = "\"\""
    /\ dipTag[Len(dipTag)] = dipTagDepositing

\* C22, as stated: when there is a slug and the Atom configuration lacks a
\* required field, neither migrate nor deposit is invoked and the run goes
\* on to the upload: it does not end with the error of the Atom client.
C22_InvalidAtomConfigSkipsDelivery ==
    (ProducingDip /\ ~runIn.atomCfgValid) =>
        /\ runPc \notin {"migrate", "deposit"}
        /\ ~( /\ runPc \in {"return", "done"}
              /\ ~retErr.nil
              /\ Head(retErr.text) = "error creating AtoM client: " )

\* C23, as stated: every run writes its preservation tag to
\* usermeta-a3m-progress exactly when its own parent node has a value under
\* that key, and to usermeta-preservation-status otherwise; likewise its DIP
\* tag to usermeta-dip-progress or usermeta-dip-status; whatever the other
\* runs did.
C23_NamespaceOfOwnParent ==
    \A k \in Runs : \A w \in gWrote[k] :
        /\ w[1] = "Preservation" =>
             w[2] = IF gMeta[k].a3mProgress THEN "usermeta-a3m-progress"
                    ELSE "usermeta-preservation-status"
        /\ w[1] = "Dip" =>
             w[2] = IF gMeta[k].dipProgress THEN "usermeta-dip-progress"
                    ELSE "usermeta-dip-status"

\* C24: the preservation tag is set to Preserved only when the stat call on
\* the resolved upload path has found the uploaded AIP: a run gets past the
\* verification only with the node there, and a run whose uploaded node is
\* missing returns an error and never writes Preserved.
C24_PreservedOnlyAfterStat ==
    /\ runPc \in {"tagAtomSlug", "tagPreserved"} => "cellsAip" \in fs
    /\ (\E i \in 1..Len(tagCalls) :
           tagCalls[i][1] = "Preservation" /\ tagCalls[i][2] = preservationTagCompleted)
         => "cellsAip" \in fs
    /\ (runPc \in {"return", "done"} /\ "cellsAip" \notin fs) => ~retErr.nil

C24_Witness ==
    /\ runPc = "done"
    /\ "cellsAip" \notin fs
    /\ Head(retErr.text) = "error getting node stats: "
    /\ \E i \in 1..Len(presTag) : presTag[i] = preservationTagUploading

C24_WitnessPreserved ==
    /\ runPc = "done"
    /\ presTag # <<>>
    /\ presTag[Len(presTag)] = preservationTagCompleted

\* C25: the status the /preserve handler writes is 400 for a request with an
\* empty username or with neither paths nor nodes, 409 for a request whose
\* fingerprint is in flight when it arrives, 200 when svc.RunArgs returns
\* nil, and 500 when it returns an error or panics; a request is rejected
\* with 409 only when its fingerprint is in flight, and accepted only when
\* it is not.
C25_StatusCodes ==
    /\ [](\A r \in Requests : hPc[r] = "done" =>
            LET b == hReq[r]
                malformed == b.username = <<>> \/ (Len(b.paths) = 0 /\ Len(b.nodes) = 0)
            IN /\ malformed => (hStatus[r] = 400 /\ ~hRan[r])
               /\ hStatus[r] = 400 => malformed
               /\ hStatus[r] \in {400, 409, 200, 500}
               /\ hOutcome[r] = "ok" <=> hStatus[r] = 200
               /\ hOutcome[r] \in {"error", "panic"} <=> hStatus[r] = 500
               /\ hOutcome[r] = "none" <=> ~hRan[r])
    /\ [][\A r \in Requests :
            (hPc[r] # "running" /\ hPc'[r] = "done"
               /\ (hPc[r] = "idle" \/ hReq'[r] # hReq[r] \/ hStatus'[r] # hStatus[r])
               /\ hReq'[r].username # <<>>
               /\ (Len(hReq'[r].paths) # 0 \/ Len(hReq'[r].nodes) # 0))
              => (hStatus'[r] = 409 /\ RequestIDOf(hReq'[r]) \in activeRequests)]_vars
    /\ [][\A r \in Requests :
            (hPc[r] # "running" /\ hPc'[r] = "running")
              => RequestIDOf(hReq'[r]) \notin activeRequests]_vars

C25_Witness ==
    \E r, o \in Requests :
        /\ hPc[r] = "done" /\ hStatus[r] = 500 /\ hOutcome[r] = "panic"
        /\ o # r /\ hPc[o] = "done" /\ hStatus[o] = 200

C25_WitnessRejected ==
    \E r, o \in Requests :
        /\ hPc[r] = "done" /\ hStatus[r] = 409
        /\ o # r /\ hPc[o] = "done" /\ hStatus[o] = 400 /\ hReq[o].username # <<>>

\* C26: two runs that are at work at the same time never have the same
\* processing directory; the directory of a run is one the run created
\* itself, under a name that was not there before; it holds the files of
\* that run only and is there until that run removes it.
C26_OwnProcessingDir ==
    /\ [](/\ \A k, j \in Runs :
               (k # j /\ dPc[k] = "work" /\ dPc[j] = "work")
                  => processingDir[k] # processingDir[j]
          /\ \A f, g \in dFiles : f[1] = g[1] => f[2] = g[2]
          /\ \A k \in Runs : dPc[k] = "work" => processingDir[k] \in baseDir)
    /\ [][\A k \in Runs :
            (dPc[k] = "mkdir" /\ dPc'[k] = "work")
              => /\ processingDir'[k] \notin baseDir
                 /\ processingDir'[k] \in baseDir'
                 /\ \A j \in Runs \ {k} : processingDir[j] # processingDir'[k]]_vars

C26_Witness ==
    /\ \A k \in Runs : dPc[k] = "work" /\ <<processingDir[k], k>> \in dFiles
    /\ dTry[1] = 2
    /\ "u1" \in baseDir

\* C27, as stated: every value written to the preservation tag is one of
\* the progress values Starting, Downloading, Preprocessing, Packaging,
\* Extracting, Compressing, Waiting, Migrating, Depositing, Uploading,
\* Preserved, or a failure value: "Failed: " and a reason, or "DIP Failed".
C27_PreservationTagValues ==
    \A i \in 1..Len(presTag) :
        \/ presTag[i] \in { preservationTagStarting, preservationTagDownloading,
                            preservationTagPreprocessing, preservationTagPackaging,
                            preservationTagExtracting, preservationTagCompressing,
                            preservationTagWaiting, dipTagMigrating, dipTagDepositing,
                            preservationTagUploading, preservationTagCompleted,
                            preservationTagDipFailed }
        \/ /\ Len(presTag[i]) >= 2
           /\ presTag[i][1] = "Failed"
           /\ presTag[i][2] = ": "

(***************************************************************************)
(* C28: for every archive that contains an entry whose path escapes the    *)
(* destination directory, extraction fails with an error (it never returns *)
(* without one), and nothing is created outside the destination: whatever  *)
(* exists besides the destination directory and the directories leading to *)
(* it lies below the destination.                                          *)
(***************************************************************************)
C28_NoZipSlip ==
    LET Inside(path) ==
            LET e == Split(Clean(path), "/")
                d == Split(Clean(ZipDest), "/")
            IN Len(e) > Len(d) /\ SubSeq(e, 1, Len(d)) = d
        Escapes(name) ==
            LET target == ZipDest \o <<"/">> \o name
            IN ~Inside(target) /\ Clean(target) # Clean(ZipDest)
    IN /\ \A p \in zCreated \ Ancestors(ZipDest) : Inside(p)
       /\ (\E i \in 1..Len(zArchive) : Escapes(zArchive[i])) => zResult # "ok"

\* an archive whose first entry was extracted below the destination and whose
\* second entry, in a sibling directory that has the destination's name as a
\* prefix, was refused
C28_Witness ==
    /\ zResult = "error"
    /\ Len(zArchive) = 2
    /\ zI = 2
    /\ Join(ZipDest, zArchive[1]) \in zCreated \ Ancestors(ZipDest)
    /\ zArchive[2] = <<".", ".", "/", "a", "i", "p", "-", "e", "v", "i", "l", "/", "x">>
    /\ Join(ZipDest, zArchive[2]) \notin zCreated

\* C29, as stated: rsync is executed only when every token of the configured
\* command is in the whitelist (the allowed flags for archive, verbose,
\* compress and progress, and -e followed by "ssh -p N" with a numeric
\* port); a command with any other token ends in an error without rsync
\* being executed.
C29_OnlyWhitelistedExecuted ==
    LET flags == allowedRsyncFlags \ {<<"-", "e">>}
        ssh == { <<"\"", "s", "s", "h", " ", "-", "p", " ", "2", "2", "\"">> }
        Whitelisted(i) ==
            \/ rsTokens[i] \in flags
            \/ rsTokens[i] = <<"-", "e">> /\ i < Len(rsTokens) /\ rsTokens[i + 1] \in ssh
            \/ rsTokens[i] \in ssh /\ i > 1 /\ rsTokens[i - 1] = <<"-", "e">>
        AllWhitelisted == \A i \in 1..Len(rsTokens) : Whitelisted(i)
    IN /\ rsCmdArgs # <<>> => AllWhitelisted
       /\ rsResult \in {"ok", "error"} /\ ~AllWhitelisted
            => rsResult = "error" /\ rsCmdArgs = <<>>

\* C30, as stated: without --serve, the process exits with code 0 when
\* the preservation succeeds, and with code 1 when the preservation of any
\* path fails.
C30_ExitCodeTellsFailure ==
    cliPc = "exited" /\ cliErr # "none"
        => /\ cliErr = "nil" => exitCode = 0
           /\ cliIn.failed # {} => exitCode = 1

\* C31, as stated: a tag update that keeps failing with a transient error is
\* attempted at most 3 times before the pipeline gives up on it.
C31_TagAttemptsAtMostThree ==
    tCalls <= 3

\* C32, as stated: with cleanup=true, every exit of the run tears down the
\* AIP the APS produced, then the DIP directory the APS produced, then the
\* processing directory: the removals happen in that order, and none of
\* the three is left when the run has returned.
C32_TeardownOrder ==
    LET rank(x) == CASE x = "aip" -> 1 [] x = "dip" -> 2 [] x = "proc" -> 3
    IN (runPc = "done" /\ runIn.cleanUp) =>
          /\ \A i \in 1..Len(fsLog) : \A j \in (i + 1)..Len(fsLog) :
                rank(fsLog[i]) < rank(fsLog[j])
          /\ fs \cap {"aip", "dip", "proc"} = {}

\* C33, as stated: when the APS reports FAILED or REJECTED for a package,
\* the pipeline fails without submitting the package again, whatever the
\* details of the failed jobs contain: no pipeline is on its way to another
\* attempt after such a report.
C33_FailedPackageNotResubmitted ==
    \A p \in Pipelines :
        aStatus[p][1] \in {"FAILED", "REJECTED"} => aPc[p] # "sleep"

(***************************************************************************)
(* C34: a request rejected with 409 leaves the in-flight entry of the      *)
(* accepted request in place.  Whenever a request is answered 409, the set *)
(* of in-flight entries is unchanged by it and a running request holds the *)
(* entry of the rejected request's fingerprint; and the entry of every     *)
(* running request is in the set until that request completes, so further  *)
(* identical requests are rejected as well.                                *)
(***************************************************************************)
C34_RejectionKeepsEntry ==
    /\ [](\A r \in Requests :
            hPc[r] = "running" => RequestIDOf(hReq[r]) \in activeRequests)
    /\ [][\A r \in Requests :
            (/\ hPc[r] \in {"idle", "done"}
             /\ hPc'[r] = "done"
             /\ hStatus'[r] = 409
             /\ (hPc[r] = "idle" \/ hReq'[r] # hReq[r] \/ hStatus'[r] # hStatus[r]))
            => /\ activeRequests' = activeRequests
               /\ RequestIDOf(hReq'[r]) \in activeRequests'
               /\ \E q \in Requests \ {r} :
                    /\ hPc'[q] = "running"
                    /\ RequestIDOf(hReq'[q]) = RequestIDOf(hReq'[r])]_vars

\* a request is running, an identical one has been answered 409, and the
\* entry is still there
C34_Witness ==
    \E q \in Requests, r \in Requests :
        /\ hPc[q] = "running"
        /\ hPc[r] = "done" /\ hStatus[r] = 409
        /\ hReq[r] = hReq[q]
        /\ RequestIDOf(hReq[q]) \in activeRequests

(***************************************************************************)
(* C35: Service.Run returns once the pipeline of every path has returned.  *)
(* A task that is in the pipeline always finds room in the error channel,  *)
(* so reporting an error never blocks it; the worker slots taken are       *)
(* exactly those of the tasks in the pipeline, so every task that left the *)
(* pipeline has released its slot; and from the moment the pipelines of    *)
(* all the paths have returned, Service.Run gets to return.                *)
(***************************************************************************)
C35_RunReturns ==
    /\ [](sRunning > 0 => errChan < sN)
    /\ [](semaphore = sRunning)
    /\ [](sPc = "returned" /\ sResult # "userClientError"
            => sOk + sFailed = sN /\ semaphore = 0)
    /\ (sPc \in {"launch", "wait"} /\ sOk + sFailed = sN) ~> (sPc = "returned")

\* every one of the 11 paths failed, and Service.Run has returned
C35_Witness ==
    /\ sPc = "returned"
    /\ sN = NumPaths
    /\ sFailed = sN
    /\ sResult = "error"

(***************************************************************************)
(* C36: when a submission attempt fails with a transient error and is      *)
(* retried, the admission slot is released before the retry and has to be  *)
(* acquired again.  The slots taken are exactly those of the pipelines     *)
(* between the acquisition and the return of an attempt; an attempt that   *)
(* held the slot gives it back in the step that sends its pipeline to the  *)
(* retry; and the pipeline gets from the retry to the Submit RPC only by   *)
(* taking a free slot.                                                     *)
(***************************************************************************)
C36_SlotReleasedBeforeRetry ==
    /\ [](processingTokens =
            Cardinality({p \in Pipelines : aPc[p] \in {"submitting", "pollwait"}}))
    /\ [][\A p \in Pipelines :
            /\ (aPc[p] \in {"submitting", "pollwait"} /\ aPc'[p] = "sleep")
                  => processingTokens' = processingTokens - 1
            /\ aPc[p] = "sleep" => aPc'[p] \in {"sleep", "acquire"}
            /\ (aPc[p] = "acquire" /\ aPc'[p] = "submitting")
                  => /\ processingTokens < MaxActiveProcessing
                     /\ processingTokens' = processingTokens + 1]_vars

\* pipeline 1 failed an attempt at the Submit RPC with a transient error and
\* waits for its retry, while another pipeline holds the only slot
C36_Witness ==
    /\ aPc[1] = "sleep"
    /\ aI[1] = 1
    /\ aErr[1] = GrpcErr("Unavailable", {})
    /\ \E q \in Pipelines \ {1} : aPc[q] = "submitting" /\ aI[q] = 0
    /\ processingTokens = MaxActiveProcessing

(***************************************************************************)
(* C37: the 30-minute limit of a submission attempt starts before the      *)
(* attempt acquires the admission slot.  A pipeline that waits for the     *)
(* slot has the context of its attempt already, running or done; and when  *)
(* the limit passes while it waits and the wait ends for that, the attempt *)
(* ends with the deadline error, having taken no slot and issued no Submit *)
(* RPC.                                                                    *)
(***************************************************************************)
C37_LimitCoversWaiting ==
    /\ [](\A p \in Pipelines :
            aPc[p] = "acquire" => aCtx[p] \in {"live", "Canceled", "DeadlineExceeded"})
    /\ [][\A p \in Pipelines :
            (/\ aPc[p] = "acquire"
             /\ aCtx[p] = "DeadlineExceeded"
             /\ aPc'[p] \in {"sleep", "done"})
            => /\ aErr'[p] = CtxErr("DeadlineExceeded")
               /\ ~aIssued'[p]
               /\ processingTokens' = processingTokens]_vars

\* the third attempt of pipeline 1 ended with the deadline error while it
\* waited for the slot: no Submit RPC was issued in it
C37_Witness ==
    /\ aPc[1] = "done"
    /\ aI[1] = SubmitRetryAttempts - 1
    /\ aErr[1] = CtxErr("DeadlineExceeded")
    /\ ~aIssued[1]
    /\ aParent[1] = "live"

\* C38, as stated: when a run that delivered a DIP has returned without an
\* error, the last value written to the DIP tag is the DIP-completed value
\* Deposited.
C38_DipTagEndsDeposited ==
    (/\ runPc = "done"
     /\ retErr.nil
     /\ \E i \in 1..Len(dipTag) : dipTag[i] = dipTagDepositing)
    => dipTag[Len(dipTag)] = dipTagCompleted

\* C39, as stated: two requests that differ in user or in their sequence of
\* paths and nodes never have the same fingerprint, so a request is answered
\* 409 only if an identical request is in flight: whenever a request is
\* rejected as a duplicate, a running request has the same user, the same
\* paths and the same nodes.
C39_RejectedOnlyIfIdentical ==
    [][\A r \in Requests :
         (/\ hPc[r] \in {"idle", "done"}
          /\ hPc'[r] = "done"
          /\ hStatus'[r] = 409
          /\ (hPc[r] = "idle" \/ hReq'[r] # hReq[r] \/ hStatus'[r] # hStatus[r]))
         => \E q \in Requests \ {r} :
               /\ hPc'[q] = "running"
               /\ hReq'[q] = hReq'[r]]_vars

\* C40, as stated: for a request given by nodes, the path whose node tree
\* the pipeline reads equals the node path supplied: for every node path a,
\* every user and every workspace collection,
\* resolvePath(unresolvePath(a)) = a.
C40_ResolveUndoesUnresolve ==
    pPc = "done" => pResolved = PathOk(pNodePath)

====
